---------------------------- MODULE Spec2Model ----------------------------
(***************************************************************************)
(* InsightGUIDE web client: the basic-auth middleware (middleware.ts) and  *)
(* the upload / preload / analyze state machine of the page (page.tsx and  *)
(* the hooks useUploadState, useDragDrop, useApiState, usePreloadState,    *)
(* useUIState, usePdfState, and the components PreloadSelector and         *)
(* InsightsViewer).                                                        *)
(*                                                                         *)
(* Several specifications share the module.  SpecAuth runs the middleware  *)
(* on requests of the root path and SpecRoute on requests of any path;     *)
(* Spec runs the page's upload, example and analysis handlers; SpecViewer  *)
(* runs the PDF preview's controls together with the handlers that load or *)
(* remove a file; SpecRace runs file selection and Clear Selection with    *)
(* FileReader callbacks that arrive at any later time; SpecFair is Spec    *)
(* with every fetch settling eventually; SpecPage adds to the page's       *)
(* handlers the viewer controls that move the page and the zoom.  The      *)
(* variables of the part a specification does not exercise keep their      *)
(* initial values.                                                         *)
(*                                                                         *)
(* One action is one event handler (or one continuation of an async        *)
(* handler after an await), run to completion together with the effects    *)
(* React runs after the re-render it causes.  A handler reads the state of *)
(* the render it was created in.  The drag-highlight flags                 *)
(* (isDraggingOver) and the scroll-into-view timers only affect styling    *)
(* and are not part of the state.  Fetches settle at any later time; the   *)
(* FileReader callback of a local read runs before the next event, except  *)
(* in SpecRace.                                                            *)
(***************************************************************************)
EXTENDS Integers, Sequences, FiniteSets, TLC

VARIABLES
    \* ---- middleware.ts ----
    env,            \* process.env: ENABLE_PASSWORD_PROTECTION, USERNAME, PASSWORD
    path,           \* the request being handled: its path
    request,        \* the request being handled: its Authorization header
    response,       \* what the middleware answered
    \* ---- useUploadState ----
    isUrlMode, isPreloadMode, pdfUrlInputValue, isUrlLoading, urlError,
    pdfFile,        \* the form value "pdfFile" (react-hook-form)
    formError,      \* formErrors.pdfFile
    isSubmitted,    \* formState.isSubmitted (re-validation on change after a submit)
    urlReq,         \* the pending handleLoadFromUrl call (its closure), or idle
    \* ---- useApiState ----
    insights, isLoading,
    submitReq,      \* the pending submitPdf call (its file), or idle
    \* ---- usePreloadState / PreloadSelector ----
    selectedPaper, isPreloadLoading, preloadedPapers, papersReq,
    tempSelectedPaper,
    preloadReq,     \* the pending loadPreloadedPaper call, or idle
    \* ---- useUIState ----
    uiError,
    \* ---- usePdfState / the page's FileReader effect ----
    fileName, pdfUrl,
    numPages, currentPage, pdfZoom,   \* usePdfState: pages and zoom (in hundredths)
    maximizedCard,  \* useUIState: 'insights', 'pdf' or null
    readers,        \* FileReader.readAsDataURL calls whose callback is pending
    \* ---- build-time configuration of the page ----
    cfg

authVars == <<env, path, request, response>>

uploadVars == <<isUrlMode, isPreloadMode, pdfUrlInputValue, isUrlLoading, urlError,
                pdfFile, formError, isSubmitted, urlReq>>

apiVars == <<insights, isLoading, submitReq>>

preloadVars == <<selectedPaper, isPreloadLoading, preloadedPapers, papersReq,
                 tempSelectedPaper, preloadReq>>

pdfVars == <<fileName, pdfUrl, readers, numPages, currentPage, pdfZoom>>

uiVars == <<uploadVars, apiVars, preloadVars, uiError, pdfVars, maximizedCard, cfg>>

vars == <<authVars, uiVars>>

\* JavaScript's null / undefined for string-valued state.
NULL == "<null>"

(***************************************************************************)
(*                         middleware.ts                                   *)
(***************************************************************************)

\* Longest credentials string (in bytes) a request carries.
MaxCredLen == 4

\* The separator of credentials.split(':').
ByteColon == 58

\* Other bytes of the credentials tried: 'u', 'p' and 'u' with the high bit set.
Byte == [u |-> 117, p |-> 112, highU |-> 245]

CredBytes == {Byte.u, Byte.p, ByteColon, Byte.highU}

RECURSIVE SeqsUpTo(_, _)
SeqsUpTo(S, n) ==
    IF n = 0 THEN {<<>>}
    ELSE LET shorter == SeqsUpTo(S, n - 1)
         IN  shorter \cup {Append(s, x) : s \in {t \in shorter : Len(t) = n - 1}, x \in S}

\* What a client sends after "Basic ": the base64 text of the credential
\* bytes, as the sequence of its 6-bit symbols (padding '=' carries no data).
RECURSIVE Base64Encode(_)
Base64Encode(bytes) ==
    IF Len(bytes) = 0 THEN <<>>
    ELSE IF Len(bytes) = 1 THEN
        << bytes[1] \div 4, (bytes[1] % 4) * 16 >>
    ELSE IF Len(bytes) = 2 THEN
        << bytes[1] \div 4, (bytes[1] % 4) * 16 + bytes[2] \div 16, (bytes[2] % 16) * 4 >>
    ELSE
        << bytes[1] \div 4,
           (bytes[1] % 4) * 16 + bytes[2] \div 16,
           (bytes[2] % 16) * 4 + bytes[3] \div 64,
           bytes[3] % 64 >> \o Base64Encode(SubSeq(bytes, 4, Len(bytes)))

\* Buffer.from(text, 'base64'): four symbols give three bytes; a trailing
\* group of two or three symbols gives one or two bytes, one symbol none.
RECURSIVE Base64Decode(_)
Base64Decode(syms) ==
    IF Len(syms) <= 1 THEN <<>>
    ELSE IF Len(syms) = 2 THEN
        << syms[1] * 4 + syms[2] \div 16 >>
    ELSE IF Len(syms) = 3 THEN
        << syms[1] * 4 + syms[2] \div 16, (syms[2] % 16) * 16 + syms[3] \div 4 >>
    ELSE
        << syms[1] * 4 + syms[2] \div 16,
           (syms[2] % 16) * 16 + syms[3] \div 4,
           (syms[3] % 4) * 64 + syms[4] >> \o Base64Decode(SubSeq(syms, 5, Len(syms)))

\* buf.toString('ascii'): the high bit of every byte is cleared.
ToAsciiString(bytes) == [i \in 1..Len(bytes) |-> bytes[i] % 128]

\* Index of the first occurrence of c in s at or after position i, 0 if none.
RECURSIVE IndexFrom(_, _, _)
IndexFrom(s, c, i) ==
    IF i > Len(s) THEN 0
    ELSE IF s[i] = c THEN i
    ELSE IndexFrom(s, c, i + 1)

\* s.split(':'): the list of the segments between the colons.
RECURSIVE Split(_)
Split(s) ==
    LET k == IndexFrom(s, ByteColon, 1)
    IN  IF k = 0 THEN << s >>
        ELSE << SubSeq(s, 1, k - 1) >> \o Split(SubSeq(s, k + 1, Len(s)))

\* const [username, password] = credentials.split(':')
\* A missing second element is undefined.
DestructureCredentials(credentials) ==
    LET parts == Split(credentials)
    IN  [username |-> parts[1],
         passwordDefined |-> Len(parts) >= 2,
         password |-> IF Len(parts) >= 2 THEN parts[2] ELSE <<>>]

\* Values of USERNAME and PASSWORD; <<>> is unset (or empty: both are falsy).
ConfiguredUsernames == {<<>>, <<Byte.u>>}
ConfiguredPasswords == {<<>>, <<Byte.p>>, <<Byte.p, ByteColon, Byte.p>>}

\* The header a client builds from a username and a password:
\* "Basic " + base64(username ':' password).
BasicHeader(username, password) ==
    [scheme |-> "Basic ", payload |-> Base64Encode(username \o <<ByteColon>> \o password)]

\* The Authorization headers a request may carry: none, another scheme,
\* "Basic " followed by the base64 text of some credential bytes, or the
\* header built from a configurable username and password.
Headers ==
    {[scheme |-> "none", payload |-> <<>>], [scheme |-> "Bearer ", payload |-> <<>>]}
    \cup {[scheme |-> "Basic ", payload |-> Base64Encode(b)] : b \in SeqsUpTo(CredBytes, MaxCredLen)}
    \cup {BasicHeader(u, p) : u \in ConfiguredUsernames, p \in ConfiguredPasswords}

Challenge == "Basic realm=\"Scientific Paper Insights\""

NextResponse == [status |-> "next", body |-> "", wwwAuthenticate |-> NULL]
ServerConfigurationError ==
    [status |-> "500", body |-> "Server configuration error", wwwAuthenticate |-> NULL]
AuthenticationRequired ==
    [status |-> "401", body |-> "Authentication required", wwwAuthenticate |-> Challenge]
InvalidCredentials ==
    [status |-> "401", body |-> "Invalid credentials", wwwAuthenticate |-> Challenge]
NoResponse == [status |-> "none", body |-> "", wwwAuthenticate |-> NULL]

\* A request path is the sequence of its lexical pieces after the leading '/'.
RootPath == <<>>

\* The paths requested from the client: the page, the examples' index, an
\* example's PDF and markdown, an image of the public folder, a script and an
\* optimized image of the build, the favicon, and API-like paths.
RequestPaths ==
    {RootPath,
     <<"data", "/", "preload", "/", "papers", ".", "json">>,
     <<"data", "/", "preload", "/", "PDF", "/", "p1", ".", "pdf">>,
     <<"data", "/", "preload", "/", "MD", "/", "p1", ".", "md">>,
     <<"logo", ".", "png">>,
     <<"_next", "/", "static", "/", "chunk", ".", "js">>,
     <<"_next", "/", "image">>,
     <<"favicon", ".", "ico">>,
     <<"api", "/", "health">>,
     <<"png">>}

\* p begins with the pieces of prefix.
StartsWith(p, prefix) ==
    Len(p) >= Len(prefix) /\ SubSeq(p, 1, Len(prefix)) = prefix

ImageExtensions == {"svg", "png", "jpg", "jpeg", "gif", "webp"}

\* The alternatives of the matcher's negative lookahead:
\* api | _next/static | _next/image | favicon.ico | .*\.(?:svg|...|webp)$
\* ('.' in favicon.ico stands for any one character).
LookaheadMatches(p) ==
    \/ StartsWith(p, <<"api">>)
    \/ StartsWith(p, <<"_next", "/", "static">>)
    \/ StartsWith(p, <<"_next", "/", "image">>)
    \/ Len(p) >= 3 /\ p[1] = "favicon" /\ p[2] \in {".", "/"} /\ p[3] = "ico"
    \/ Len(p) >= 2 /\ p[Len(p) - 1] = "." /\ p[Len(p)] \in ImageExtensions

\* config.matcher: '/((?!...).*)' matches the paths the lookahead rejects.
MatcherMatches(p) == ~LookaheadMatches(p)

\* The request was served without the middleware being run.
ServedUnchecked == [status |-> "unchecked", body |-> "", wwwAuthenticate |-> NULL]

\* The middleware's answer to a request carrying header h under environment e.
MiddlewareResponse(e, h) ==
    IF ~e.protection THEN NextResponse
    ELSE IF e.password = <<>> \/ e.username = <<>> THEN ServerConfigurationError
    ELSE IF h.scheme # "Basic " THEN AuthenticationRequired
    ELSE LET credentials == ToAsciiString(Base64Decode(h.payload))
             c == DestructureCredentials(credentials)
         IN  IF c.username # e.username \/ ~c.passwordDefined \/ c.password # e.password
             THEN InvalidCredentials
             ELSE NextResponse


(***************************************************************************)
(*              Files, form values and form validation                     *)
(***************************************************************************)

\* const MAX_FILE_SIZE = 15 * 1024 * 1024; // 15MB
MAX_FILE_SIZE == 15 * 1024 * 1024
ACCEPTED_FILE_TYPES == {"application/pdf"}

\* Most files one drop event carries.
MaxDropFiles == 2

File(name, type, size, body) == [name |-> name, type |-> type, size |-> size, body |-> body]

\* Files the user has on disk: a PDF of exactly the size ceiling, a file that
\* is not a PDF, and a PDF one byte over the ceiling.
LocalPdf == File("paper.pdf", "application/pdf", MAX_FILE_SIZE, "A")
TextFile == File("notes.txt", "text/plain", 1024, "T")
BigPdf   == File("big.pdf", "application/pdf", MAX_FILE_SIZE + 1, "B")
LocalFiles == {LocalPdf, TextFile, BigPdf}

\* The value of the form field: null, or a FileList.
NullValue == [kind |-> "null", files |-> <<>>]
FileList(fs) == [kind |-> "list", files |-> fs]

\* uploadedFile && uploadedFile.length > 0
HasFile(v) == v.kind = "list" /\ Len(v.files) > 0

RequiredMsg == "PDF file is required for analysis."
MaxSizeMsg  == "Max file size is 15MB."
OnlyPdfMsg  == "Only .pdf files are accepted."

\* formSchema without the refinement on the file's size.
SchemaError_NoSizeLimit(v) ==
    IF v.kind = "null" THEN NULL
    ELSE IF Len(v.files) = 0 THEN RequiredMsg
    ELSE IF v.files[1].type \notin ACCEPTED_FILE_TYPES THEN OnlyPdfMsg
    ELSE NULL

\* formSchema: the first issue zod reports for the field, NULL when it parses.
SchemaError(v) ==
    IF v.kind = "null" THEN NULL
    ELSE IF Len(v.files) = 0 THEN RequiredMsg
    ELSE IF ~(v.files[1].size <= MAX_FILE_SIZE) THEN MaxSizeMsg
    ELSE IF v.files[1].type \notin ACCEPTED_FILE_TYPES THEN OnlyPdfMsg
    ELSE NULL

\* JavaScript truthiness of a string-or-null.
Truthy(s) == s # NULL /\ s # ""

\* The upload state the handlers of useUploadState read and write.
Upload ==
    [isUrlMode |-> isUrlMode, isPreloadMode |-> isPreloadMode,
     pdfUrlInputValue |-> pdfUrlInputValue, urlError |-> urlError,
     pdfFile |-> pdfFile, formError |-> formError]

\* react-hook-form: setValue("pdfFile", v, { shouldValidate: true })
SetValue(u, v) == [u EXCEPT !.pdfFile = v, !.formError = SchemaError(v)]

\* react-hook-form: resetField("pdfFile"): back to the default value, error dropped.
ResetField(u) == [u EXCEPT !.pdfFile = NullValue, !.formError = NULL]

\* react-hook-form: clearErrors()
ClearErrors(u) == [u EXCEPT !.formError = NULL]

(***************************************************************************)
(*                   useUploadState: the mode handlers                     *)
(***************************************************************************)

\* handleUrlModeToggle without the early return for a loaded file.
handleUrlModeToggle_Unguarded(u, uploadedFile, checked) ==
    ClearErrors([ResetField(u) EXCEPT !.isUrlMode = checked,
                                      !.pdfUrlInputValue = "",
                                      !.urlError = NULL])

\* handleUrlModeToggle(checked); uploadedFile is the value the handler's
\* closure holds, u the state it updates.
handleUrlModeToggle(u, uploadedFile, checked) ==
    IF HasFile(uploadedFile) THEN u
    ELSE ClearErrors([ResetField(u) EXCEPT !.isUrlMode = checked,
                                           !.pdfUrlInputValue = "",
                                           !.urlError = NULL])

\* handlePreloadModeToggle(checked)
handlePreloadModeToggle(u, uploadedFile, checked) ==
    IF HasFile(uploadedFile) THEN u
    ELSE IF checked
         THEN ClearErrors([ResetField(u) EXCEPT !.isPreloadMode = TRUE,
                                                !.isUrlMode = FALSE,
                                                !.pdfUrlInputValue = "",
                                                !.urlError = NULL])
         ELSE ClearErrors([ResetField(u) EXCEPT !.isPreloadMode = FALSE])

\* handleClearSelection()
handleClearSelection(u) ==
    ClearErrors([ResetField(u) EXCEPT !.pdfUrlInputValue = "",
                                      !.urlError = NULL,
                                      !.isUrlMode = FALSE,
                                      !.isPreloadMode = FALSE])

\* handleSetPreloadedFile(file)
handleSetPreloadedFile(u, file) ==
    SetValue(ClearErrors([u EXCEPT !.isUrlMode = FALSE,
                                   !.pdfUrlInputValue = "",
                                   !.urlError = NULL]),
             FileList(<<file>>))

\* selectedPaper as useUploadState receives it: isPreloadEnabled ? selectedPaper : null
SelectedPaperProp == IF cfg.preloadEnabled THEN selectedPaper ELSE NULL

\* isUrlModeDisabled without the isPreloadMode disjunct.
isUrlModeDisabled_IgnoringPreloadMode ==
    HasFile(pdfFile) \/ isUrlLoading \/ SelectedPaperProp # NULL

isUrlModeDisabled ==
    HasFile(pdfFile) \/ isUrlLoading \/ SelectedPaperProp # NULL \/ isPreloadMode

isPreloadModeDisabled ==
    HasFile(pdfFile) \/ isUrlLoading \/ isUrlMode


(***************************************************************************)
(*        page.tsx: the effect on uploadedFile (FileReader preview)        *)
(***************************************************************************)

NoPdfUrl == [mime |-> NULL, data |-> NULL]

\* reader.readAsDataURL(file): the data URL of the file's type and bytes.
DataUrl(file) == [mime |-> file.type, data |-> file.body]

\* numPages: null is 0 (the code tests it for truthiness only).
NoNumPages == 0

\* pdfZoom: 1.0, in hundredths.
DefaultZoom == 100

Pdf == [fileName |-> fileName, pdfUrl |-> pdfUrl, readers |-> readers,
        numPages |-> numPages, currentPage |-> currentPage, pdfZoom |-> pdfZoom]

\* The effect's branch for no file: fileName, pdfUrl and pdfZoom are reset.
ClearedPdf(p) == [p EXCEPT !.fileName = NULL, !.pdfUrl = NoPdfUrl, !.pdfZoom = DefaultZoom]

\* Variant of clearPdfState that leaves the page count and the page alone.
clearPdfState_KeepsPage(p) ==
    [p EXCEPT !.fileName = NULL, !.pdfUrl = NoPdfUrl, !.pdfZoom = DefaultZoom]

\* clearPdfState(): the initial pdfState; pending FileReaders are not aborted.
clearPdfState(p) ==
    [p EXCEPT !.fileName = NULL, !.pdfUrl = NoPdfUrl, !.numPages = NoNumPages,
              !.currentPage = 1, !.pdfZoom = DefaultZoom]

\* useEffect(..., [uploadedFile, clearErrors]) for the new value v; error is
\* the uiError of the render the effect (and its reader.onload) closes over.
UploadedFileEffect(p, v, error) ==
    IF HasFile(v)
    THEN [p EXCEPT !.fileName = v.files[1].name,
                   !.readers = @ \cup {[file |-> v.files[1], errorAtStart |-> Truthy(error)]}]
    ELSE ClearedPdf(p)

\* The effect runs when the watched value is a new object: a FileList just
\* installed, or a change between null and a list.
AfterRender(p, old, new, installed, error) ==
    IF installed \/ old # new THEN UploadedFileEffect(p, new, error) ELSE p

(***************************************************************************)
(*                       useDragDrop: handleDrop                           *)
(***************************************************************************)

OnlyOneMsg     == "Please drop only one PDF file."
InvalidTypeMsg == "Invalid file type. Please drop a PDF file."
ExceedsMsg     == "File exceeds maximum size of 15MB."

\* handleDrop without the check of the file's type.
handleDrop_NoTypeCheck(fs) ==
    LET same == [u |-> Upload, uiError |-> uiError, installed |-> FALSE]
        u1 == IF isUrlMode THEN handleUrlModeToggle(Upload, pdfFile, FALSE) ELSE Upload
        rejected(msg) == [u |-> SetValue(u1, NullValue), uiError |-> msg, installed |-> FALSE]
    IN  IF isLoading \/ isUrlLoading THEN same
        ELSE IF Len(fs) = 0 THEN [same EXCEPT !.u = u1]
        ELSE IF Len(fs) > 1 THEN rejected(OnlyOneMsg)
        ELSE IF fs[1].size > MAX_FILE_SIZE THEN rejected(ExceedsMsg)
        ELSE [u |-> SetValue(u1, FileList(fs)), uiError |-> "", installed |-> TRUE]

\* Variant of handleDrop without the check of the number of files.
handleDrop_AnyCount(fs) ==
    LET same == [u |-> Upload, uiError |-> uiError, installed |-> FALSE]
        u1 == IF isUrlMode THEN handleUrlModeToggle(Upload, pdfFile, FALSE) ELSE Upload
        rejected(msg) == [u |-> SetValue(u1, NullValue), uiError |-> msg, installed |-> FALSE]
    IN  IF isLoading \/ isUrlLoading THEN same
        ELSE IF Len(fs) = 0 THEN [same EXCEPT !.u = u1]
        ELSE IF fs[1].type \notin ACCEPTED_FILE_TYPES THEN rejected(InvalidTypeMsg)
        ELSE IF fs[1].size > MAX_FILE_SIZE THEN rejected(ExceedsMsg)
        ELSE [u |-> SetValue(u1, FileList(fs)), uiError |-> "", installed |-> TRUE]

\* handleDrop for a drop carrying the files fs: the upload state, the UI
\* error and whether a FileList was installed.
handleDrop(fs) ==
    LET same == [u |-> Upload, uiError |-> uiError, installed |-> FALSE]
        u1 == IF isUrlMode THEN handleUrlModeToggle(Upload, pdfFile, FALSE) ELSE Upload
        rejected(msg) == [u |-> SetValue(u1, NullValue), uiError |-> msg, installed |-> FALSE]
    IN  IF isLoading \/ isUrlLoading THEN same
        ELSE IF Len(fs) = 0 THEN [same EXCEPT !.u = u1]
        ELSE IF Len(fs) > 1 THEN rejected(OnlyOneMsg)
        ELSE IF fs[1].type \notin ACCEPTED_FILE_TYPES THEN rejected(InvalidTypeMsg)
        ELSE IF fs[1].size > MAX_FILE_SIZE THEN rejected(ExceedsMsg)
        ELSE [u |-> SetValue(u1, FileList(fs)), uiError |-> "", installed |-> TRUE]

(***************************************************************************)
(*                      useApiState: submitPdf                             *)
(***************************************************************************)

NoBackendMsg == "Backend API URL is not configured. Please set NEXT_PUBLIC_BACKEND_BASE_URL in your .env.local file."
NoFileMsg    == "No PDF file selected or loaded to analyze."

ContextLengthMsg == "This PDF exceeds the context length limit and is too large to process. Please try uploading a smaller PDF document with fewer pages or less text content."
TimedOutMsg      == "The PDF processing timed out. This usually happens with very large files. Please try a smaller PDF document."
UnableMsg        == "Unable to process this PDF file. The file may be corrupted, password-protected, or in an unsupported format. Please try a different PDF."

FailedToFetch   == "Failed to fetch"
ApiError500     == "API Error: 500 Internal Server Error"
OcrTimedOut     == "OCR request timed out"
InputTooLong    == "Invalid_Request_Error: input is Too Long"
InvalidJsonMsg  == "Invalid JSON response: 'insights' field missing or not a string."
EmptyResponseMsg == "Empty response from API."

\* A message is matched as the sequence of its characters.
Letters ==
    [upper |->
        <<"A", "B", "C", "D", "E", "F", "G", "H", "I", "J", "K", "L", "M",
          "N", "O", "P", "Q", "R", "S", "T", "U", "V", "W", "X", "Y", "Z">>,
     lower |->
        <<"a", "b", "c", "d", "e", "f", "g", "h", "i", "j", "k", "l", "m",
          "n", "o", "p", "q", "r", "s", "t", "u", "v", "w", "x", "y", "z">>]

\* String.prototype.toLowerCase()
ToLowerCase(s) ==
    [i \in 1..Len(s) |->
        IF \E k \in 1..Len(Letters.upper) : Letters.upper[k] = s[i]
        THEN Letters.lower[CHOOSE k \in 1..Len(Letters.upper) : Letters.upper[k] = s[i]]
        ELSE s[i]]

\* String.prototype.includes(p)
Includes(s, p) == \E i \in 1..(Len(s) - Len(p) + 1) : SubSeq(s, i, i + Len(p) - 1) = p

\* The characters of the messages an analysis can fail with.
Text(msg) ==
    CASE msg = FailedToFetch ->
            <<"F", "a", "i", "l", "e", "d", " ", "t", "o", " ", "f", "e",
              "t", "c", "h">>
      [] msg = ApiError500 ->
            <<"A", "P", "I", " ", "E", "r", "r", "o", "r", ":", " ", "5",
              "0", "0", " ", "I", "n", "t", "e", "r", "n", "a", "l", " ",
              "S", "e", "r", "v", "e", "r", " ", "E", "r", "r", "o", "r">>
      [] msg = OcrTimedOut ->
            <<"O", "C", "R", " ", "r", "e", "q", "u", "e", "s", "t", " ",
              "t", "i", "m", "e", "d", " ", "o", "u", "t">>
      [] msg = InputTooLong ->
            <<"I", "n", "v", "a", "l", "i", "d", "_", "R", "e", "q", "u",
              "e", "s", "t", "_", "E", "r", "r", "o", "r", ":", " ", "i",
              "n", "p", "u", "t", " ", "i", "s", " ", "T", "o", "o", " ",
              "L", "o", "n", "g">>
      [] msg = InvalidJsonMsg ->
            <<"I", "n", "v", "a", "l", "i", "d", " ", "J", "S", "O", "N",
              " ", "r", "e", "s", "p", "o", "n", "s", "e", ":", " ", "'",
              "i", "n", "s", "i", "g", "h", "t", "s", "'", " ", "f", "i",
              "e", "l", "d", " ", "m", "i", "s", "s", "i", "n", "g", " ",
              "o", "r", " ", "n", "o", "t", " ", "a", " ", "s", "t", "r",
              "i", "n", "g", ".">>
      [] msg = EmptyResponseMsg ->
            <<"E", "m", "p", "t", "y", " ", "r", "e", "s", "p", "o", "n",
              "s", "e", " ", "f", "r", "o", "m", " ", "A", "P", "I", ".">>

\* The substrings submitPdf's catch block looks for, by branch.
ContextPatterns ==
    {<<"e", "x", "c", "e", "e", "d", "s", " ", "t", "h", "e", " ", "m", "o", "d", "e", "l", "'", "s", " ", "m", "a", "x", " ", "i", "n", "p", "u", "t", " ", "l", "i", "m", "i", "t">>,
     <<"c", "o", "n", "t", "e", "x", "t", " ", "l", "e", "n", "g", "t", "h">>,
     <<"t", "o", "k", "e", "n", " ", "l", "i", "m", "i", "t">>,
     <<"t", "o", "o", " ", "l", "o", "n", "g">>,
     <<"m", "a", "x", "i", "m", "u", "m", " ", "l", "e", "n", "g", "t", "h">>,
     <<"i", "n", "v", "a", "l", "i", "d", "_", "r", "e", "q", "u", "e", "s", "t", "_", "e", "r", "r", "o", "r">>}

TimeoutPatterns ==
    {<<"t", "i", "m", "e", "o", "u", "t">>,
     <<"t", "i", "m", "e", "d", " ", "o", "u", "t">>}

FormatPatterns ==
    {<<"f", "o", "r", "m", "a", "t">>,
     <<"i", "n", "v", "a", "l", "i", "d">>,
     <<"c", "o", "r", "r", "u", "p", "t", "e", "d">>}

\* Variant of the catch block that compares without lower-casing.
CatchBranch_CaseSensitive(errorMessage) ==
    IF \E p \in ContextPatterns : Includes(errorMessage, p) THEN "context"
    ELSE IF \E p \in TimeoutPatterns : Includes(errorMessage, p) THEN "timeout"
    ELSE IF \E p \in FormatPatterns : Includes(errorMessage, p) THEN "format"
    ELSE "verbatim"

\* The branch submitPdf's catch block takes for a message: the if / else-if
\* chain over errorMessage.toLowerCase().includes(...).
CatchBranch(errorMessage) ==
    LET lower == ToLowerCase(errorMessage)
    IN  IF \E p \in ContextPatterns : Includes(lower, p) THEN "context"
        ELSE IF \E p \in TimeoutPatterns : Includes(lower, p) THEN "timeout"
        ELSE IF \E p \in FormatPatterns : Includes(lower, p) THEN "format"
        ELSE "verbatim"

\* The message submitPdf's catch block hands to onError.
FriendlyMessage(msg) ==
    LET branch == CatchBranch(Text(msg))
    IN  IF branch = "context" THEN ContextLengthMsg
        ELSE IF branch = "timeout" THEN TimedOutMsg
        ELSE IF branch = "format" THEN UnableMsg
        ELSE msg

\* Markdown the backend may return in "insights" (or as a text body).
InsightStrings == {"", "# Report"}

\* What the POST to /api/process-pdf/ may come to.
SubmitOutcomes ==
    {[kind |-> "reject", text |-> FailedToFetch]}
    \cup {[kind |-> "notOk", text |-> m] : m \in {ApiError500, OcrTimedOut, InputTooLong}}
    \cup {[kind |-> "json", text |-> x] : x \in InsightStrings}
    \cup {[kind |-> "jsonNoInsights", text |-> ""]}
    \cup {[kind |-> "text", text |-> x] : x \in InsightStrings}

\* Variant of submitPdf's outcome that takes an empty text body for insights.
SubmitResult_AcceptsEmptyText(o) ==
    CASE o.kind = "reject" -> [ok |-> FALSE, text |-> FriendlyMessage(o.text)]
      [] o.kind = "notOk"  -> [ok |-> FALSE, text |-> FriendlyMessage(o.text)]
      [] o.kind = "json"   -> [ok |-> TRUE, text |-> o.text]
      [] o.kind = "jsonNoInsights" -> [ok |-> FALSE, text |-> FriendlyMessage(InvalidJsonMsg)]
      [] o.kind = "text"   -> [ok |-> TRUE, text |-> o.text]

\* The outcome of submitPdf after the fetch settles: the insights it installs
\* (ok) or the message it reports.
SubmitResult(o) ==
    CASE o.kind = "reject" -> [ok |-> FALSE, text |-> FriendlyMessage(o.text)]
      [] o.kind = "notOk"  -> [ok |-> FALSE, text |-> FriendlyMessage(o.text)]
      [] o.kind = "json"   -> [ok |-> TRUE, text |-> o.text]
      [] o.kind = "jsonNoInsights" -> [ok |-> FALSE, text |-> FriendlyMessage(InvalidJsonMsg)]
      [] o.kind = "text"   -> IF o.text # "" THEN [ok |-> TRUE, text |-> o.text]
                              ELSE [ok |-> FALSE, text |-> FriendlyMessage(EmptyResponseMsg)]

\* SubmitResult, tabulated over the outcomes.
SubmitResults == [o \in SubmitOutcomes |-> SubmitResult(o)]



(***************************************************************************)
(*                 usePreloadState and the static data                     *)
(***************************************************************************)

\* The ids of /data/preload/papers.json.
PaperIds == {"p1"}

\* /data/preload/PDF/<filename>.pdf as the File loadPreloadedPaper builds.
PaperFile(id) == File("p1.pdf", "application/pdf", 1024 * 1024, "P1")

\* /data/preload/MD/<filename>.md
PaperInsights(id) == "MD:p1"

PapersFailedMsg  == "Failed to load preloaded papers: Failed to load preloaded papers configuration"
PaperNotFoundMsg == "Selected paper not found in preloaded data."
InsightsFailedMsg == "Failed to load preloaded paper: Failed to load insights for p1"
PdfFailedMsg      == "Failed to load preloaded paper: Failed to load PDF for p1"

NoFile == File(NULL, NULL, 0, NULL)

IdleSubmit  == [active |-> FALSE, file |-> NoFile]
IdleUrl     == [active |-> FALSE, url |-> "", hadFile |-> FALSE]
IdlePreload == [stage |-> "idle", paper |-> NULL, insights |-> NULL]

\* The PreloadSelector is rendered only in preload mode; unmounted, its
\* tempSelectedPaper is lost, and its effect empties it when selectedPaper
\* turns null.
SelectorRendered(mode) == cfg.preloadEnabled /\ mode

TempAfter(t, mode, selected) ==
    IF ~SelectorRendered(mode) THEN ""
    ELSE IF selected = NULL /\ selectedPaper # NULL THEN ""
    ELSE t

(***************************************************************************)
(*                          The page: state                                *)
(***************************************************************************)

SetUpload(u) ==
    /\ isUrlMode' = u.isUrlMode
    /\ isPreloadMode' = u.isPreloadMode
    /\ pdfUrlInputValue' = u.pdfUrlInputValue
    /\ urlError' = u.urlError
    /\ pdfFile' = u.pdfFile
    /\ formError' = u.formError

SetPdf(p) ==
    /\ fileName' = p.fileName
    /\ numPages' = p.numPages
    /\ currentPage' = p.currentPage
    /\ pdfZoom' = p.pdfZoom
    /\ pdfUrl' = p.pdfUrl
    /\ readers' = p.readers

AuthIdle ==
    /\ env = [protection |-> FALSE, username |-> <<>>, password |-> <<>>]
    /\ path = RootPath
    /\ request = [scheme |-> "none", payload |-> <<>>]
    /\ response = NoResponse

Configs ==
    [preloadEnabled : BOOLEAN, preloadDefaultOn : BOOLEAN,
     testingEnabled : BOOLEAN, backendConfigured : BOOLEAN]

PageInit(c) ==
    /\ cfg = c
    /\ isUrlMode = FALSE
    /\ isPreloadMode = c.preloadDefaultOn
    /\ pdfUrlInputValue = ""
    /\ isUrlLoading = FALSE
    /\ urlError = NULL
    /\ pdfFile = NullValue
    /\ formError = NULL
    /\ isSubmitted = FALSE
    /\ urlReq = IdleUrl
    /\ insights = NULL
    /\ isLoading = FALSE
    /\ submitReq = IdleSubmit
    /\ selectedPaper = NULL
    /\ isPreloadLoading = FALSE
    /\ preloadedPapers = {}
    /\ papersReq = IF c.preloadEnabled THEN "pending" ELSE "none"
    /\ tempSelectedPaper = ""
    /\ preloadReq = IdlePreload
    /\ uiError = NULL
    /\ fileName = NULL
    /\ numPages = NoNumPages
    /\ currentPage = 1
    /\ pdfZoom = DefaultZoom
    /\ maximizedCard = NULL
    /\ pdfUrl = NoPdfUrl
    /\ readers = {}

Init == AuthIdle /\ \E c \in Configs : PageInit(c)

(***************************************************************************)
(*                    The page: derived render values                      *)
(***************************************************************************)

\* canAnalyze (page.tsx)
canAnalyze ==
    /\ HasFile(pdfFile) /\ formError = NULL
    /\ ~(cfg.preloadEnabled /\ isPreloadMode /\ selectedPaper # NULL)

\* The submit button "Analyze PDF" is enabled.
AnalyzeEnabled ==
    ~(isLoading \/ isUrlLoading \/ ~canAnalyze
      \/ (cfg.preloadEnabled /\ isPreloadMode /\ selectedPaper # NULL))

\* The hidden file input is enabled.
FileInputEnabled == ~(isLoading \/ isUrlLoading \/ isUrlMode \/ isPreloadMode)

UrlSwitchEnabled == ~(isLoading \/ isUrlLoading \/ isUrlModeDisabled)

PreloadSwitchEnabled ==
    cfg.preloadEnabled /\ ~(isLoading \/ isUrlLoading \/ isPreloadModeDisabled)

\* The URL input and its button exist only in URL mode.
UrlInputEnabled == isUrlMode /\ ~(isLoading \/ isUrlLoading)
LoadFromUrlEnabled == isUrlMode /\ ~(isLoading \/ isUrlLoading \/ pdfUrlInputValue = "")

\* isDisabled as the page passes it to PreloadSelector
SelectorDisabled == isLoading \/ isUrlLoading \/ HasFile(pdfFile) \/ isUrlMode

SelectEnabled == SelectorRendered(isPreloadMode) /\ ~(SelectorDisabled \/ isPreloadLoading)
LoadExampleEnabled ==
    SelectorRendered(isPreloadMode)
    /\ ~(tempSelectedPaper = "" \/ SelectorDisabled \/ isPreloadLoading)

\* "Clear Selection" is rendered and enabled.
ClearSelectionEnabled ==
    /\ HasFile(pdfFile) \/ (cfg.preloadEnabled /\ isPreloadMode /\ selectedPaper # NULL)
    /\ formError = NULL
    /\ ~(isLoading \/ isUrlLoading \/ isPreloadLoading)

\* InsightsViewer: the text-size buttons and the save button are rendered
\* under "insights &&", the test-content button under "isTestingEnabled &&
\* onTestInsights".
TextSizeControlsShown == Truthy(insights)
SaveButtonShown == Truthy(insights)
TestLoaderShown == cfg.testingEnabled

\* InsightsViewer: what ReactMarkdown is given, NULL when the placeholder (or
\* nothing) is rendered in its place.
RenderedMarkdown == IF Truthy(insights) THEN insights ELSE NULL


(***************************************************************************)
(*                        The page: the actions                            *)
(***************************************************************************)

\* usePreloadState's mount effect: the fetch of papers.json settles.
PapersLoaded ==
    /\ papersReq = "pending"
    /\ papersReq' = "done"
    /\ \/ /\ preloadedPapers' = PaperIds
          /\ UNCHANGED uiError
       \/ /\ preloadedPapers' = {}
          /\ uiError' = PapersFailedMsg
    /\ UNCHANGED <<uploadVars, apiVars, selectedPaper, isPreloadLoading,
                   tempSelectedPaper, preloadReq, pdfVars, maximizedCard, cfg>>

\* A drop on the drop area: handleDrop, then the effect on uploadedFile.
Drop(fs) ==
    LET r == handleDrop(fs)
        p == AfterRender(Pdf, pdfFile, r.u.pdfFile, r.installed, r.uiError)
    IN  /\ SetUpload(r.u)
        /\ uiError' = r.uiError
        /\ SetPdf(p)
        /\ UNCHANGED <<isUrlLoading, isSubmitted, urlReq, apiVars, preloadVars, maximizedCard, cfg>>

\* The file picker: the registered input's onChange.  react-hook-form
\* validates on change only once the form has been submitted.
PickFile(f) ==
    LET v == FileList(<<f>>)
        u == [Upload EXCEPT !.pdfFile = v,
                            !.formError = IF isSubmitted THEN SchemaError(v) ELSE @]
        p == AfterRender(Pdf, pdfFile, v, TRUE, uiError)
    IN  /\ FileInputEnabled
        /\ SetUpload(u)
        /\ SetPdf(p)
        /\ UNCHANGED <<isUrlLoading, isSubmitted, urlReq, apiVars, preloadVars, uiError, maximizedCard, cfg>>

\* The "Load PDF from URL" switch.
UrlSwitch ==
    LET u == handleUrlModeToggle(Upload, pdfFile, ~isUrlMode)
    IN  /\ UrlSwitchEnabled
        /\ SetUpload(u)
        /\ SetPdf(AfterRender(Pdf, pdfFile, u.pdfFile, FALSE, uiError))
        /\ UNCHANGED <<isUrlLoading, isSubmitted, urlReq, apiVars, preloadVars, uiError, maximizedCard, cfg>>

\* The "Load Example Paper" switch.
PreloadSwitch ==
    LET u == handlePreloadModeToggle(Upload, pdfFile, ~isPreloadMode)
    IN  /\ PreloadSwitchEnabled
        /\ SetUpload(u)
        /\ SetPdf(AfterRender(Pdf, pdfFile, u.pdfFile, FALSE, uiError))
        /\ tempSelectedPaper' = TempAfter(tempSelectedPaper, u.isPreloadMode, selectedPaper)
        /\ UNCHANGED <<isUrlLoading, isSubmitted, urlReq, apiVars, selectedPaper,
                       isPreloadLoading, preloadedPapers, papersReq, preloadReq,
                       uiError, maximizedCard, cfg>>

\* URLs the user may type.
GoodUrl == "https://host/a.pdf"
BadUrl  == "ftp://host/a.pdf"

\* extractFileNameFromUrl(url)
extractFileNameFromUrl(url) == "a.pdf"

\* pdfUrlInputValue.trim().startsWith('http')
StartsWithHttp(url) == url = GoodUrl

\* Typing in the URL input.
UrlInputChange(v) ==
    /\ UrlInputEnabled
    /\ v # pdfUrlInputValue
    /\ pdfUrlInputValue' = v
    /\ UNCHANGED <<isUrlMode, isPreloadMode, isUrlLoading, urlError, pdfFile, formError,
                   isSubmitted, urlReq, apiVars, preloadVars, uiError, pdfVars, maximizedCard, cfg>>

InvalidUrlMsg == "Please enter a valid PDF URL (starting with http or https)."

\* "Load from URL": handleLoadFromUrl up to its await of fetch.
LoadFromUrlClick ==
    /\ LoadFromUrlEnabled
    /\ IF pdfUrlInputValue = "" \/ ~StartsWithHttp(pdfUrlInputValue)
       THEN /\ urlError' = InvalidUrlMsg
            /\ UNCHANGED <<isUrlLoading, urlReq>>
       ELSE /\ isUrlLoading' = TRUE
            /\ urlError' = NULL
            /\ urlReq' = [active |-> TRUE, url |-> pdfUrlInputValue,
                          hadFile |-> HasFile(pdfFile)]
    /\ UNCHANGED <<isUrlMode, isPreloadMode, pdfUrlInputValue, pdfFile, formError,
                   isSubmitted, apiVars, preloadVars, uiError, pdfVars, maximizedCard, cfg>>

UrlNotOkMsg    == "Failed to fetch PDF: 404 Not Found. Server might not allow direct fetching (CORS issue)."
UrlNotPdfMsg   == "The linked resource does not appear to be a PDF file (Content-Type mismatch)."
UrlTooLargeMsg == "The PDF from URL exceeds the maximum file size of 15MB."

\* What the GET of the URL may come to: a rejected fetch, a non-OK status, a
\* missing or foreign Content-Type, or a PDF body of some size.
UrlOutcomes ==
    {[kind |-> "reject", contentType |-> NULL, size |-> 0, body |-> NULL],
     [kind |-> "notOk", contentType |-> "text/html", size |-> 0, body |-> NULL],
     [kind |-> "ok", contentType |-> NULL, size |-> 1024, body |-> "T"],
     [kind |-> "ok", contentType |-> "text/html", size |-> 1024, body |-> "T"],
     [kind |-> "ok", contentType |-> "application/pdf", size |-> MAX_FILE_SIZE, body |-> "A"],
     [kind |-> "ok", contentType |-> "application/pdf", size |-> MAX_FILE_SIZE + 1, body |-> "B"]}

\* contentType.includes("application/pdf")
IncludesPdf(contentType) == contentType = "application/pdf"

\* The message handleLoadFromUrl throws for an outcome, NULL when it throws none.
UrlFailure(o) ==
    IF o.kind = "reject" THEN FailedToFetch
    ELSE IF o.kind = "notOk" THEN UrlNotOkMsg
    ELSE IF o.contentType = NULL \/ ~IncludesPdf(o.contentType) THEN UrlNotPdfMsg
    ELSE IF o.size > MAX_FILE_SIZE THEN UrlTooLargeMsg
    ELSE NULL

\* Variant of handleLoadFromUrl whose catch block always empties the form.
UrlSettle_AlwaysClears(o) ==
    LET name == extractFileNameFromUrl(urlReq.url)
        file == File(name, "application/pdf", o.size, o.body)
        failed == UrlFailure(o) # NULL
        u == IF failed
             THEN SetValue([Upload EXCEPT !.urlError = UrlFailure(o)], NullValue)
             ELSE [SetValue(Upload, FileList(<<file>>)) EXCEPT !.pdfUrlInputValue = ""]
        named == IF failed THEN Pdf ELSE [Pdf EXCEPT !.fileName = name]
        p == AfterRender(named, pdfFile, u.pdfFile, ~failed, uiError)
    IN  /\ urlReq.active
        /\ SetUpload(u)
        /\ SetPdf(p)
        /\ isUrlLoading' = FALSE
        /\ urlReq' = IdleUrl
        /\ UNCHANGED <<isSubmitted, apiVars, preloadVars, uiError, maximizedCard, cfg>>

\* handleLoadFromUrl after the fetch settled with outcome o.
UrlSettle(o) ==
    LET name == extractFileNameFromUrl(urlReq.url)
        file == File(name, "application/pdf", o.size, o.body)
        failed == UrlFailure(o) # NULL
        u == IF failed
             THEN LET e == [Upload EXCEPT !.urlError = UrlFailure(o)]
                  IN  IF urlReq.hadFile THEN e ELSE SetValue(e, NullValue)
             ELSE [SetValue(Upload, FileList(<<file>>)) EXCEPT !.pdfUrlInputValue = ""]
        named == IF failed THEN Pdf ELSE [Pdf EXCEPT !.fileName = name]
        p == AfterRender(named, pdfFile, u.pdfFile, ~failed, uiError)
    IN  /\ urlReq.active
        /\ SetUpload(u)
        /\ SetPdf(p)
        /\ isUrlLoading' = FALSE
        /\ urlReq' = IdleUrl
        /\ UNCHANGED <<isSubmitted, apiVars, preloadVars, uiError, maximizedCard, cfg>>


\* "Analyze PDF": handleSubmit(handleFormSubmit).  The resolver validates the
\* form; handleFormSubmit (and submitPdf, up to its await of fetch) runs only
\* for a form that parses.
AnalyzeClick ==
    LET error == SchemaError(pdfFile)
        valid == error = NULL
        invoked == valid /\ HasFile(pdfFile)
        file == IF invoked THEN pdfFile.files[1] ELSE NoFile
    IN  /\ AnalyzeEnabled
        /\ isSubmitted' = TRUE
        /\ formError' = error
        /\ uiError' = IF ~valid THEN uiError
                      ELSE IF ~HasFile(pdfFile) THEN NoFileMsg
                      ELSE IF ~cfg.backendConfigured THEN NoBackendMsg
                      ELSE NULL
        /\ IF invoked /\ cfg.backendConfigured
           THEN /\ isLoading' = TRUE
                /\ submitReq' = [active |-> TRUE, file |-> file]
           ELSE UNCHANGED <<isLoading, submitReq>>
        /\ UNCHANGED <<isUrlMode, isPreloadMode, pdfUrlInputValue, isUrlLoading, urlError,
                       pdfFile, urlReq, insights, preloadVars, pdfVars, maximizedCard, cfg>>

\* Variant of submitPdf that sends the POST again after a failure.
SubmitSettle_Retrying(o) ==
    LET r == SubmitResults[o]
    IN  /\ submitReq.active
        /\ insights' = IF r.ok THEN r.text ELSE insights
        /\ uiError' = IF r.ok THEN NULL ELSE r.text
        /\ isLoading' = ~r.ok
        /\ submitReq' = IF r.ok THEN IdleSubmit ELSE submitReq
        /\ UNCHANGED <<uploadVars, preloadVars, pdfVars, maximizedCard, cfg>>

\* submitPdf after the POST settled with outcome o.
SubmitSettle(o) ==
    LET r == SubmitResults[o]
    IN  /\ submitReq.active
        /\ insights' = IF r.ok THEN r.text ELSE insights
        /\ uiError' = IF r.ok THEN NULL ELSE r.text
        /\ isLoading' = FALSE
        /\ submitReq' = IdleSubmit
        /\ UNCHANGED <<uploadVars, preloadVars, pdfVars, maximizedCard, cfg>>

\* The example selector: setTempSelectedPaper.
SelectPaper(id) ==
    /\ SelectEnabled
    /\ id \in preloadedPapers
    /\ id # tempSelectedPaper
    /\ tempSelectedPaper' = id
    /\ UNCHANGED <<uploadVars, apiVars, selectedPaper, isPreloadLoading, preloadedPapers,
                   papersReq, preloadReq, uiError, pdfVars, maximizedCard, cfg>>

\* "Load Example": handleLoadPreloadedPaper, i.e. loadPreloadedPaper up to its
\* await of the markdown fetch.
LoadExampleClick ==
    /\ LoadExampleEnabled
    /\ IF tempSelectedPaper \notin preloadedPapers
       THEN /\ uiError' = PaperNotFoundMsg
            /\ UNCHANGED <<selectedPaper, isPreloadLoading, preloadReq>>
       ELSE /\ isPreloadLoading' = TRUE
            /\ selectedPaper' = tempSelectedPaper
            /\ preloadReq' = [stage |-> "md", paper |-> tempSelectedPaper, insights |-> NULL]
            /\ UNCHANGED uiError
    /\ UNCHANGED <<uploadVars, apiVars, preloadedPapers, papersReq, tempSelectedPaper,
                   pdfVars, maximizedCard, cfg>>

\* Variant of loadPreloadedPaper's failure path without the finally block.
PreloadFailed_KeepsLoading(msg) ==
    /\ uiError' = msg
    /\ selectedPaper' = NULL
    /\ preloadReq' = IdlePreload
    /\ tempSelectedPaper' = TempAfter(tempSelectedPaper, isPreloadMode, NULL)
    /\ UNCHANGED <<uploadVars, apiVars, isPreloadLoading, preloadedPapers, papersReq,
                   pdfVars, maximizedCard, cfg>>

\* loadPreloadedPaper's catch and finally: the error is reported and the
\* selection dropped; handleLoadPreloadedPaper gets null and installs nothing.
PreloadFailed(msg) ==
    /\ uiError' = msg
    /\ selectedPaper' = NULL
    /\ isPreloadLoading' = FALSE
    /\ preloadReq' = IdlePreload
    /\ tempSelectedPaper' = TempAfter(tempSelectedPaper, isPreloadMode, NULL)
    /\ UNCHANGED <<uploadVars, apiVars, preloadedPapers, papersReq, pdfVars, maximizedCard, cfg>>

\* The markdown fetch settled, with the insights shown before the PDF fetch.
PreloadMdSettle_InstallsEarly(ok) ==
    /\ preloadReq.stage = "md"
    /\ IF ok
       THEN /\ preloadReq' = [preloadReq EXCEPT !.stage = "pdf",
                                                !.insights = PaperInsights(preloadReq.paper)]
            /\ insights' = PaperInsights(preloadReq.paper)
            /\ UNCHANGED <<uploadVars, isLoading, submitReq, selectedPaper, isPreloadLoading,
                           preloadedPapers, papersReq, tempSelectedPaper, uiError,
                           pdfVars, maximizedCard, cfg>>
       ELSE PreloadFailed(InsightsFailedMsg)

\* The markdown fetch settled: its text is kept for onSuccess and the PDF
\* fetch starts, or the load fails.
PreloadMdSettle(ok) ==
    /\ preloadReq.stage = "md"
    /\ IF ok
       THEN /\ preloadReq' = [preloadReq EXCEPT !.stage = "pdf",
                                                !.insights = PaperInsights(preloadReq.paper)]
            /\ UNCHANGED <<uploadVars, apiVars, selectedPaper, isPreloadLoading,
                           preloadedPapers, papersReq, tempSelectedPaper, uiError,
                           pdfVars, maximizedCard, cfg>>
       ELSE PreloadFailed(InsightsFailedMsg)

\* Variant of the successful end of a load that leaves the UI error alone.
PreloadSucceeded_KeepsError ==
    LET file == PaperFile(preloadReq.paper)
        u == handleSetPreloadedFile(Upload, file)
        p == AfterRender([Pdf EXCEPT !.fileName = file.name], pdfFile, u.pdfFile, TRUE, NULL)
    IN  /\ SetUpload(u)
        /\ SetPdf(p)
        /\ insights' = preloadReq.insights
        /\ isPreloadLoading' = FALSE
        /\ preloadReq' = IdlePreload
        /\ UNCHANGED <<isUrlLoading, isSubmitted, urlReq, isLoading, submitReq, selectedPaper,
                       preloadedPapers, papersReq, tempSelectedPaper, uiError, maximizedCard, cfg>>

\* The PDF fetch settled well: onSuccess (file name, insights through
\* setTestInsights, which clears the UI error), then handleSetPreloadedFile.
PreloadSucceeded ==
    LET file == PaperFile(preloadReq.paper)
        u == handleSetPreloadedFile(Upload, file)
        p == AfterRender([Pdf EXCEPT !.fileName = file.name], pdfFile, u.pdfFile, TRUE, NULL)
    IN  /\ SetUpload(u)
        /\ SetPdf(p)
        /\ insights' = preloadReq.insights
        /\ uiError' = NULL
        /\ isPreloadLoading' = FALSE
        /\ preloadReq' = IdlePreload
        /\ UNCHANGED <<isUrlLoading, isSubmitted, urlReq, isLoading, submitReq, selectedPaper,
                       preloadedPapers, papersReq, tempSelectedPaper, maximizedCard, cfg>>

PreloadPdfSettle(ok) ==
    /\ preloadReq.stage = "pdf"
    /\ IF ok THEN PreloadSucceeded ELSE PreloadFailed(PdfFailedMsg)

\* "Clear Selection": handleClearSelectionWithInsights.
ClearSelection ==
    LET wasPreloadMode == isPreloadMode /\ selectedPaper # NULL
        u == IF wasPreloadMode
             THEN ClearErrors(SetValue(Upload, NullValue))
             ELSE handleClearSelection(Upload)
        p == AfterRender(clearPdfState(Pdf), pdfFile, u.pdfFile, FALSE, NULL)
    IN  /\ ClearSelectionEnabled
        /\ SetUpload(u)
        /\ SetPdf(p)
        /\ insights' = NULL
        /\ selectedPaper' = NULL
        /\ uiError' = NULL
        /\ tempSelectedPaper' = TempAfter(tempSelectedPaper, u.isPreloadMode, NULL)
        /\ UNCHANGED <<isUrlLoading, isSubmitted, urlReq, isLoading, submitReq,
                       isPreloadLoading, preloadedPapers, papersReq, preloadReq, maximizedCard, cfg>>

ReadFailedMsg == "Error reading the selected file. It might be corrupted or an unsupported format."

\* Variant of reader.onload that keeps the page, page count and zoom.
ReaderOnLoad_KeepsView(r) ==
    /\ r \in readers
    /\ readers' = readers \ {r}
    /\ pdfUrl' = DataUrl(r.file)
    /\ uiError' = IF r.errorAtStart THEN NULL ELSE uiError
    /\ formError' = NULL
    /\ UNCHANGED <<isUrlMode, isPreloadMode, pdfUrlInputValue, isUrlLoading, urlError,
                   pdfFile, isSubmitted, urlReq, apiVars, preloadVars, fileName,
                   numPages, currentPage, pdfZoom, maximizedCard, cfg>>

\* reader.onload of a pending read: the preview is installed, the UI error
\* cleared when the closure saw one, and the field's error cleared.
ReaderOnLoad(r) ==
    /\ r \in readers
    /\ readers' = readers \ {r}
    /\ pdfUrl' = DataUrl(r.file)
    /\ currentPage' = 1
    /\ numPages' = NoNumPages
    /\ pdfZoom' = DefaultZoom
    /\ uiError' = IF r.errorAtStart THEN NULL ELSE uiError
    /\ formError' = NULL
    /\ UNCHANGED <<isUrlMode, isPreloadMode, pdfUrlInputValue, isUrlLoading, urlError,
                   pdfFile, isSubmitted, urlReq, apiVars, preloadVars, fileName,
                   maximizedCard, cfg>>

\* reader.onerror of a pending read.
ReaderOnError(r) ==
    /\ r \in readers
    /\ readers' = readers \ {r}
    /\ pdfUrl' = NoPdfUrl
    /\ uiError' = ReadFailedMsg
    /\ UNCHANGED <<uploadVars, apiVars, preloadVars, fileName, numPages, currentPage,
                   pdfZoom, maximizedCard, cfg>>

\* The test markdown of InsightsViewer.handleTestInsights.
TestMarkdown == "# Paper Analysis"

\* The test-content button: setTestInsights(testMarkdown).
LoadTestContent ==
    /\ cfg.testingEnabled
    /\ insights' = TestMarkdown
    /\ uiError' = NULL
    /\ UNCHANGED <<uploadVars, isLoading, submitReq, preloadVars, pdfVars, maximizedCard, cfg>>

DropLists == SeqsUpTo(LocalFiles, MaxDropFiles)

\* No FileReader callback is pending.
NoReadPending == readers = {}

\* The handlers of user input and of settled fetches, and the callbacks of
\* the FileReader the effect started.  The read of a local Blob completes
\* within the task that follows its start: the reader's callback runs before
\* the next input or settled fetch is handled.
Next ==
    \/ NoReadPending /\ PapersLoaded /\ UNCHANGED authVars
    \/ \E fs \in DropLists : NoReadPending /\ Drop(fs) /\ UNCHANGED authVars
    \/ \E f \in LocalFiles : NoReadPending /\ PickFile(f) /\ UNCHANGED authVars
    \/ NoReadPending /\ UrlSwitch /\ UNCHANGED authVars
    \/ NoReadPending /\ PreloadSwitch /\ UNCHANGED authVars
    \/ \E v \in {"", GoodUrl, BadUrl} : NoReadPending /\ UrlInputChange(v) /\ UNCHANGED authVars
    \/ NoReadPending /\ LoadFromUrlClick /\ UNCHANGED authVars
    \/ \E o \in UrlOutcomes : NoReadPending /\ UrlSettle(o) /\ UNCHANGED authVars
    \/ NoReadPending /\ AnalyzeClick /\ UNCHANGED authVars
    \/ \E o \in SubmitOutcomes : NoReadPending /\ SubmitSettle(o) /\ UNCHANGED authVars
    \/ \E id \in PaperIds : NoReadPending /\ SelectPaper(id) /\ UNCHANGED authVars
    \/ NoReadPending /\ LoadExampleClick /\ UNCHANGED authVars
    \/ \E ok \in BOOLEAN : NoReadPending /\ PreloadMdSettle(ok) /\ UNCHANGED authVars
    \/ \E ok \in BOOLEAN : NoReadPending /\ PreloadPdfSettle(ok) /\ UNCHANGED authVars
    \/ NoReadPending /\ ClearSelection /\ UNCHANGED authVars
    \/ NoReadPending /\ LoadTestContent /\ UNCHANGED authVars
    \/ \E r \in readers : ReaderOnLoad(r) /\ UNCHANGED authVars
    \/ \E r \in readers : ReaderOnError(r) /\ UNCHANGED authVars

Spec == Init /\ [][Next]_vars

\* Every fetch eventually settles (the POST of submitPdf, the GET of
\* handleLoadFromUrl, the two GETs of loadPreloadedPaper), and so does every
\* FileReader read.
FetchesSettle ==
    /\ WF_vars((\E o \in SubmitOutcomes : SubmitSettle(o)) /\ UNCHANGED authVars)
    /\ WF_vars((\E o \in UrlOutcomes : UrlSettle(o)) /\ UNCHANGED authVars)
    /\ WF_vars((\E ok \in BOOLEAN : PreloadMdSettle(ok)) /\ UNCHANGED authVars)
    /\ WF_vars((\E ok \in BOOLEAN : PreloadPdfSettle(ok)) /\ UNCHANGED authVars)
    /\ WF_vars((\E r \in readers : ReaderOnLoad(r) \/ ReaderOnError(r)) /\ UNCHANGED authVars)

SpecFair == Spec /\ FetchesSettle

(***************************************************************************)
(*                 usePdfState: the PDF preview's controls                 *)
(***************************************************************************)

\* Zoom factors are held in hundredths: 0.1 is 10, 2.0 is 200.
MIN_ZOOM == 10
MAX_ZOOM == 200
ZOOM_STEP == 10

\* Math.min, Math.max
Min(a, b) == IF a <= b THEN a ELSE b
Max(a, b) == IF a >= b THEN a ELSE b

\* The entries of the zoom menu: 50%, 75%, 100%, 125%, 150%, 200%.
ZoomPresets == {50, 75, 100, 125, 150, 200}

\* The page counts pdf.js may report for a document.
MaxPages == 3
PageCounts == 1..MaxPages

\* The zoom factors handleSetZoom is examined on.
MaxZoomRequest == 250
ZoomRequests == 0..MaxZoomRequest

goToPrevPage(p) == [p EXCEPT !.currentPage = Max(p.currentPage - 1, 1)]

\* Variant that steps without the upper limit.
goToNextPage_Unclamped(p) == [p EXCEPT !.currentPage = p.currentPage + 1]

goToNextPage(p) ==
    [p EXCEPT !.currentPage =
        Min(p.currentPage + 1, IF p.numPages # NoNumPages THEN p.numPages ELSE 1)]

\* Variant that steps without the upper limit.
handleZoomIn_Unclamped(p) == [p EXCEPT !.pdfZoom = p.pdfZoom + ZOOM_STEP]

handleZoomIn(p) == [p EXCEPT !.pdfZoom = Min(p.pdfZoom + ZOOM_STEP, MAX_ZOOM)]

handleZoomOut(p) == [p EXCEPT !.pdfZoom = Max(p.pdfZoom - ZOOM_STEP, MIN_ZOOM)]

handleResetZoom(p) == [p EXCEPT !.pdfZoom = DefaultZoom]

handleSetZoom(p, zoom) == [p EXCEPT !.pdfZoom = Max(MIN_ZOOM, Min(MAX_ZOOM, zoom))]

\* onDocumentLoadSuccess that shows page 1 after every load of the document.
onDocumentLoadSuccess_AlwaysFirstPage(p, n) ==
    [p EXCEPT !.numPages = n, !.currentPage = 1]

\* onDocumentLoadSuccess({numPages: n}): the first load of a document shows
\* page 1, a reload keeps the page within the new count.
onDocumentLoadSuccess(p, n) ==
    LET shouldResetPage == p.numPages = NoNumPages
    IN  [p EXCEPT !.numPages = n,
                  !.currentPage = IF shouldResetPage THEN 1 ELSE Min(p.currentPage, n)]

\* useUIState: toggleMaximizeCard(cardType)
toggleMaximizeCard(m, cardType) == IF m = cardType THEN NULL ELSE cardType

\* usePdfState's effect on [pdfUrl, maximizedCard]: entering or leaving the
\* maximized PDF card resets the zoom while a preview exists.
MaximizeEffect(p, prevMaximized, currentMaximized) ==
    IF /\ p.pdfUrl # NoPdfUrl
       /\ (prevMaximized = "pdf") # (currentMaximized = "pdf")
    THEN [p EXCEPT !.pdfZoom = DefaultZoom]
    ELSE p

\* The page and zoom controls are rendered under "numPages && pdfUrl".
ControlsShown == numPages # NoNumPages /\ pdfUrl # NoPdfUrl

\* What a viewer action leaves alone besides pdfState and maximizedCard.
ViewerFrame == UNCHANGED <<uploadVars, apiVars, preloadVars, uiError, cfg>>

\* react-pdf's <Document> finished loading the data URL.  A document that is
\* loaded again (the Document is re-mounted when its width is recomputed)
\* reports the same number of pages.
DocumentLoadSuccess(n) ==
    /\ pdfUrl # NoPdfUrl
    /\ numPages # NoNumPages => n = numPages
    /\ SetPdf(onDocumentLoadSuccess(Pdf, n))
    /\ UNCHANGED maximizedCard
    /\ ViewerFrame

DocumentLoadFailedMsg == "Failed to load PDF for preview"

\* <Document onLoadError>: onDocumentLoadError, unless the form has an error.
DocumentLoadError ==
    /\ pdfUrl # NoPdfUrl
    /\ numPages = NoNumPages
    /\ formError = NULL
    /\ uiError' = DocumentLoadFailedMsg
    /\ UNCHANGED <<uploadVars, apiVars, preloadVars, pdfVars, maximizedCard, cfg>>

\* The "Previous" button (disabled on page 1).
PrevPageClick ==
    /\ ControlsShown /\ ~(currentPage <= 1)
    /\ SetPdf(goToPrevPage(Pdf))
    /\ UNCHANGED maximizedCard
    /\ ViewerFrame

\* The "Next" button (disabled on the last page).
NextPageClick ==
    /\ ControlsShown /\ ~(currentPage >= numPages)
    /\ SetPdf(goToNextPage(Pdf))
    /\ UNCHANGED maximizedCard
    /\ ViewerFrame

\* Event targets in which a key press is left to the element: an <input>, a
\* <textarea>, a content-editable element.  Any other target is "body".
EditableTargets == {"input", "textarea", "contentEditable"}

\* handleKeyDown of one listener for the state p of the render it closes
\* over: the page state it asks for.
handleKeyDown(p, key, target) ==
    IF p.pdfUrl = NoPdfUrl \/ p.numPages = NoNumPages THEN p
    ELSE IF target \in EditableTargets THEN p
    ELSE IF key = "ArrowLeft" /\ p.currentPage > 1 THEN goToPrevPage(p)
    ELSE IF key = "ArrowRight" /\ p.currentPage < p.numPages THEN goToNextPage(p)
    ELSE p

\* Variant of the keydown event in which the second listener works on the
\* page the first one has set.
KeyDown_Compounding(key, target) ==
    /\ pdfUrl # NoPdfUrl /\ numPages # NoNumPages
    /\ SetPdf(handleKeyDown(handleKeyDown(Pdf, key, target), key, target))
    /\ UNCHANGED maximizedCard
    /\ ViewerFrame

\* A keydown event on window: the listener of usePdfState and the listener
\* of the page both run, each with the state of the render that registered
\* it, and updatePdfState merges what the second asks for over the first.
KeyDown(key, target) ==
    LET first == handleKeyDown(Pdf, key, target)
        second == handleKeyDown(Pdf, key, target)
    IN  /\ pdfUrl # NoPdfUrl /\ numPages # NoNumPages
        /\ SetPdf([first EXCEPT !.currentPage = second.currentPage])
        /\ UNCHANGED maximizedCard
        /\ ViewerFrame

ZoomInClick ==
    /\ ControlsShown /\ ~(pdfZoom >= MAX_ZOOM)
    /\ SetPdf(handleZoomIn(Pdf))
    /\ UNCHANGED maximizedCard
    /\ ViewerFrame

ZoomOutClick ==
    /\ ControlsShown /\ ~(pdfZoom <= MIN_ZOOM)
    /\ SetPdf(handleZoomOut(Pdf))
    /\ UNCHANGED maximizedCard
    /\ ViewerFrame

ResetZoomClick ==
    /\ ControlsShown
    /\ SetPdf(handleResetZoom(Pdf))
    /\ UNCHANGED maximizedCard
    /\ ViewerFrame

\* An entry of the zoom menu.
ZoomPresetClick(zoom) ==
    /\ ControlsShown
    /\ SetPdf(handleSetZoom(Pdf, zoom))
    /\ UNCHANGED maximizedCard
    /\ ViewerFrame

\* The maximize buttons of the two cards: handlePdfMaximizeToggle and
\* handleInsightsMaximizeToggle, then the effect on maximizedCard.  The
\* delayed smoothResetPdfView of handlePdfMaximizeToggle sets the same zoom
\* as the effect does.  While one card is maximized the other card, and its
\* button, is hidden.
MaximizeToggle(cardType) ==
    LET m == toggleMaximizeCard(maximizedCard, cardType)
    IN  /\ maximizedCard \in {NULL, cardType}
        /\ maximizedCard' = m
        /\ SetPdf(MaximizeEffect(Pdf, maximizedCard, m))
        /\ ViewerFrame

\* The preview on its own: the handlers that load or remove a file and the
\* controls of the viewer, on a page without backend, examples and test
\* loader.  The handlers left out (analysis, examples, test content) write
\* pdfState only through the effect on uploadedFile and clearPdfState, as the
\* handlers kept here do.
ViewerConfig ==
    [preloadEnabled |-> FALSE, preloadDefaultOn |-> FALSE,
     testingEnabled |-> FALSE, backendConfigured |-> FALSE]

InitViewer == AuthIdle /\ PageInit(ViewerConfig)

ViewerFiles == {LocalPdf, TextFile}

NextViewer ==
    \/ \E fs \in SeqsUpTo(ViewerFiles, MaxDropFiles) :
          NoReadPending /\ Drop(fs) /\ UNCHANGED authVars
    \/ \E f \in ViewerFiles : NoReadPending /\ PickFile(f) /\ UNCHANGED authVars
    \/ NoReadPending /\ UrlSwitch /\ UNCHANGED authVars
    \/ \E v \in {"", GoodUrl} : NoReadPending /\ UrlInputChange(v) /\ UNCHANGED authVars
    \/ NoReadPending /\ LoadFromUrlClick /\ UNCHANGED authVars
    \/ \E o \in UrlOutcomes : NoReadPending /\ UrlSettle(o) /\ UNCHANGED authVars
    \/ NoReadPending /\ ClearSelection /\ UNCHANGED authVars
    \/ \E r \in readers : ReaderOnLoad(r) /\ UNCHANGED authVars
    \/ \E r \in readers : ReaderOnError(r) /\ UNCHANGED authVars
    \/ \E n \in PageCounts : NoReadPending /\ DocumentLoadSuccess(n) /\ UNCHANGED authVars
    \/ NoReadPending /\ DocumentLoadError /\ UNCHANGED authVars
    \/ NoReadPending /\ PrevPageClick /\ UNCHANGED authVars
    \/ NoReadPending /\ NextPageClick /\ UNCHANGED authVars
    \/ \E key \in {"ArrowLeft", "ArrowRight"}, target \in EditableTargets \cup {"body"} :
          NoReadPending /\ KeyDown(key, target) /\ UNCHANGED authVars
    \/ NoReadPending /\ ZoomInClick /\ UNCHANGED authVars
    \/ NoReadPending /\ ZoomOutClick /\ UNCHANGED authVars
    \/ NoReadPending /\ ResetZoomClick /\ UNCHANGED authVars
    \/ \E zoom \in ZoomPresets : NoReadPending /\ ZoomPresetClick(zoom) /\ UNCHANGED authVars
    \/ \E cardType \in {"insights", "pdf"} :
          NoReadPending /\ MaximizeToggle(cardType) /\ UNCHANGED authVars

SpecViewer == InitViewer /\ [][NextViewer]_vars

\* The page's handlers together with viewer controls that take the preview
\* off its initial page and zoom: the document's load, the "Next" button and
\* an entry of the zoom menu.
NextPage ==
    \/ Next
    \/ NoReadPending /\ DocumentLoadSuccess(MaxPages) /\ UNCHANGED authVars
    \/ NoReadPending /\ NextPageClick /\ UNCHANGED authVars
    \/ NoReadPending /\ ZoomPresetClick(MAX_ZOOM) /\ UNCHANGED authVars

\* SpecPage starts from the builds that have the backend, the examples and
\* the test loader all configured.
InitPage ==
    /\ AuthIdle
    /\ \E c \in Configs :
          c.preloadEnabled /\ c.testingEnabled /\ c.backendConfigured /\ PageInit(c)

SpecPage == InitPage /\ [][NextPage]_vars

\* Reads that may be pending at once in SpecRace.
MaxPendingReads == 2

\* File selection, replacement and Clear Selection with the FileReader
\* callbacks arriving at any later time and in any order: the effect on
\* uploadedFile has no cleanup, so a read once started is never aborted.
NextRace ==
    \/ \E fs \in SeqsUpTo(ViewerFiles, MaxDropFiles) :
          Drop(fs) /\ Cardinality(readers') <= MaxPendingReads /\ UNCHANGED authVars
    \/ \E f \in ViewerFiles :
          PickFile(f) /\ Cardinality(readers') <= MaxPendingReads /\ UNCHANGED authVars
    \/ ClearSelection /\ UNCHANGED authVars
    \/ \E r \in readers : ReaderOnLoad(r) /\ UNCHANGED authVars
    \/ \E r \in readers : ReaderOnError(r) /\ UNCHANGED authVars

SpecRace == InitViewer /\ [][NextRace]_vars

(***************************************************************************)
(*                 The middleware: state and actions                       *)
(***************************************************************************)

Environments ==
    [protection : BOOLEAN, username : ConfiguredUsernames, password : ConfiguredPasswords]

\* The page's state while only the middleware runs.
PageIdle ==
    PageInit([preloadEnabled |-> FALSE, preloadDefaultOn |-> FALSE,
              testingEnabled |-> FALSE, backendConfigured |-> FALSE])

InitAuth ==
    /\ env \in Environments
    /\ path = RootPath
    /\ request = [scheme |-> "none", payload |-> <<>>]
    /\ response = NoResponse
    /\ PageIdle

\* middleware(request) for a request carrying the Authorization header h.
middleware(h) ==
    /\ request' = h
    /\ response' = MiddlewareResponse(env, h)
    /\ UNCHANGED <<env, path>>

NextAuth == (\E h \in Headers : middleware(h)) /\ UNCHANGED uiVars

SpecAuth == InitAuth /\ [][NextAuth]_vars

\* Next.js routing: the middleware runs for the paths config.matcher matches;
\* any other request is served without it.
Route(p, h) ==
    /\ path' = p
    /\ request' = h
    /\ response' = IF MatcherMatches(p) THEN MiddlewareResponse(env, h) ELSE ServedUnchecked
    /\ UNCHANGED env

\* The headers tried on every path: none, and the ones built from
\* configurable credentials.
RouteHeaders ==
    {[scheme |-> "none", payload |-> <<>>]}
    \cup {BasicHeader(u, p) : u \in ConfiguredUsernames, p \in ConfiguredPasswords}

NextRoute == (\E p \in RequestPaths, h \in RouteHeaders : Route(p, h)) /\ UNCHANGED uiVars

SpecRoute == InitAuth /\ [][NextRoute]_vars

(***************************************************************************)
(*                       Properties of the page                            *)
(***************************************************************************)

\* A request (analysis or URL load) during which handleDrop ignores drops.
DropIgnored == isLoading \/ isUrlLoading

\* The drops that carry a file that is not a PDF.
NonPdfDrops ==
    {fs \in DropLists : \E i \in 1..Len(fs) : fs[i].type \notin ACCEPTED_FILE_TYPES}

\* No POST to /api/process-pdf/ is in flight for a file that is not a PDF, and
\* a form holding such a file does not parse.
NonPdfNeverSubmitted ==
    /\ submitReq.active => submitReq.file.type \in ACCEPTED_FILE_TYPES
    /\ (HasFile(pdfFile) /\ pdfFile.files[1].type \notin ACCEPTED_FILE_TYPES)
            => SchemaError(pdfFile) # NULL

\* "Analyze PDF" on a form holding a file that is not a PDF: validation fails
\* with the field's error; handleFormSubmit and submitPdf do not run.
NonPdfFailsValidation ==
    (AnalyzeClick /\ pdfFile.files[1].type \notin ACCEPTED_FILE_TYPES)
        => /\ formError' \in {OnlyPdfMsg, MaxSizeMsg}
           /\ UNCHANGED <<uiError, isLoading, submitReq>>

\* C2 (as amended): a file that is not a PDF is rejected without a network
\* call.  A drop of it that handleDrop handles reports an error and sets
\* pdfFile to null; a drop during an analysis or a URL load is ignored and
\* changes nothing.  A picked one fails validation, so handleFormSubmit and
\* submitPdf never run for it and no POST to /api/process-pdf/ is issued.
C2_NonPdfRejectedLocally ==
    /\ [](/\ \A fs \in NonPdfDrops :
               LET r == handleDrop(fs)
               IN  IF DropIgnored
                   THEN r.u = Upload /\ r.uiError = uiError /\ ~r.installed
                   ELSE /\ r.uiError \in {InvalidTypeMsg, OnlyOneMsg}
                        /\ r.u.pdfFile = NullValue
                        /\ ~r.installed
          /\ NonPdfNeverSubmitted)
    /\ [][NonPdfFailsValidation]_vars

\* A drop of a file that is not a PDF was rejected: the error is shown and the
\* form holds no file.
C2_NonPdfDropRejected ==
    /\ uiError = InvalidTypeMsg
    /\ pdfFile = NullValue
    /\ ~submitReq.active

\* C2 (as stated): every drop of a file that is not a PDF reports an error
\* and sets pdfFile to null; a picked one fails validation and is never
\* submitted.
C2_EveryNonPdfDropReportsError ==
    /\ \A fs \in NonPdfDrops :
           LET r == handleDrop(fs)
           IN  /\ r.uiError \in {InvalidTypeMsg, OnlyOneMsg}
               /\ r.u.pdfFile = NullValue
    /\ NonPdfNeverSubmitted

\* The URL outcomes that are a PDF body.
PdfOutcomes == {o \in UrlOutcomes : o.kind = "ok" /\ o.contentType # NULL /\ IncludesPdf(o.contentType)}

C4_TogglesIgnoredWhileFileLoaded ==
    HasFile(pdfFile) =>
        \A checked \in BOOLEAN :
            \A u \in {handleUrlModeToggle(Upload, pdfFile, checked),
                      handlePreloadModeToggle(Upload, pdfFile, checked)} :
                /\ u.isUrlMode = isUrlMode
                /\ u.isPreloadMode = isPreloadMode
                /\ u.pdfFile = pdfFile

\* A file loaded from a URL is in the form with URL mode still on: the state
\* in which a toggle would otherwise switch the mode off and drop the file.
C4_FileLoadedInUrlMode ==
    /\ HasFile(pdfFile)
    /\ isUrlMode
    /\ NoReadPending


\* Some invocation of a mode handler changes the upload state.
ToggleTakesEffect ==
    \E checked \in BOOLEAN :
        \/ handleUrlModeToggle(Upload, pdfFile, checked) # Upload
        \/ handlePreloadModeToggle(Upload, pdfFile, checked) # Upload

\* C5: once a file has been loaded, only Clear Selection brings the page back
\* to a state in which a URL-mode or preload-mode toggle takes effect; no
\* other step (a rejected drop, a failed URL load, a settled submit) does.
C5_OnlyClearSelectionReenablesToggles ==
    [][(~ToggleTakesEffect /\ ToggleTakesEffect') => ClearSelection]_vars

\* C6: isUrlMode and isPreloadMode are never both true, whatever the initial
\* value of isPreloadMode.
C6_ModesMutuallyExclusive == ~(isUrlMode /\ isPreloadMode)

\* The page started in preload mode and is now in URL mode.
C6_UrlModeAfterPreloadDefault ==
    /\ cfg.preloadEnabled /\ cfg.preloadDefaultOn
    /\ isUrlMode
    /\ ~isPreloadMode

\* C7: at most one of the three operations (submitPdf upload, URL load,
\* preloaded-example load) is in flight at any time.
C7_AtMostOneInFlight ==
    /\ ~(submitReq.active /\ urlReq.active)
    /\ ~(submitReq.active /\ preloadReq.stage # "idle")
    /\ ~(urlReq.active /\ preloadReq.stage # "idle")

\* C8: while the loaded file is the one loadPreloadedPaper installed
\* (selectedPaper is set), "Analyze PDF" is disabled, and submitPdf is never
\* in flight for a preloaded example's file.
C8_PreloadedNeverAnalysed ==
    /\ (selectedPaper # NULL /\ pdfFile = FileList(<<PaperFile(selectedPaper)>>))
            => ~AnalyzeEnabled
    /\ submitReq.active => submitReq.file \notin {PaperFile(id) : id \in PaperIds}

\* C9: after submitPdf receives a 2xx JSON response {"insights": X}, for
\* every string X, insights is X, X is the markdown rendered, the text-size
\* and save controls are shown, and so is the test-content loader when testing
\* is enabled.
C9_JsonInsightsShown ==
    [][\A x \in InsightStrings :
          SubmitSettle([kind |-> "json", text |-> x]) =>
              /\ insights' = x
              /\ RenderedMarkdown' = x
              /\ TextSizeControlsShown'
              /\ SaveButtonShown'
              /\ cfg.testingEnabled => TestLoaderShown']_vars

\* C10: a preloaded-example load shows no partial result.  The step after
\* the markdown fetch shows nothing; the step that ends the load either
\* follows a successful PDF fetch and installs the example's insights and
\* file, or leaves insights and the loaded file as they were, sets
\* selectedPaper to null and reports the error.
C10_NoPartialPreload ==
    [][(preloadReq.stage # "idle" /\ preloadReq' # preloadReq) =>
          IF preloadReq'.stage # "idle"
          THEN /\ preloadReq.stage = "md" /\ preloadReq'.stage = "pdf"
               /\ UNCHANGED <<insights, pdfFile, selectedPaper, uiError, fileName>>
          ELSE \/ /\ preloadReq.stage = "pdf"
                  /\ insights' = PaperInsights(preloadReq.paper)
                  /\ pdfFile' = FileList(<<PaperFile(preloadReq.paper)>>)
               \/ /\ UNCHANGED <<insights, pdfFile>>
                  /\ selectedPaper' = NULL
                  /\ uiError' \in {InsightsFailedMsg, PdfFailedMsg}]_vars

\* The PDF fetch of an example failed after its markdown had been fetched:
\* the error is shown, the selection dropped, and the markdown is not shown.
C10_PdfFetchFailed ==
    /\ uiError = PdfFailedMsg
    /\ selectedPaper = NULL
    /\ preloadReq = IdlePreload
    /\ insights \notin {PaperInsights(id) : id \in PaperIds}

\* What the claims call the downstream state of a load: the form's value
\* without the file's name, its validity, the preview, the error banner and
\* the Analyze button.
Downstream ==
    [files    |-> [i \in 1..Len(pdfFile.files) |->
                      [type |-> pdfFile.files[i].type, size |-> pdfFile.files[i].size,
                       body |-> pdfFile.files[i].body]],
     valid    |-> SchemaError(pdfFile) = NULL /\ formError = NULL,
     pdfUrl   |-> pdfUrl,
     page     |-> currentPage,
     numPages |-> numPages,
     zoom     |-> pdfZoom,
     error    |-> Truthy(uiError),
     analyze  |-> AnalyzeEnabled]

\* The downstream state of a completed load of one valid PDF with f's content.
LoadedState(f) ==
    [files    |-> <<[type |-> f.type, size |-> f.size, body |-> f.body]>>,
     valid    |-> TRUE,
     pdfUrl   |-> DataUrl(f),
     page     |-> 1,
     numPages |-> NoNumPages,
     zoom     |-> DefaultZoom,
     error    |-> FALSE,
     analyze  |-> TRUE]

ValidPdf(f) == SchemaError(FileList(<<f>>)) = NULL

\* C11: a URL load that succeeds (OK, Content-Type application/pdf, body within
\* MAX_FILE_SIZE) installs one file with the body's content and starts its
\* preview with no URL error left, and once the preview is read the
\* downstream state is the one a local upload of the same content (with no
\* example selected) ends in: exactly one valid PDF in the form, the preview
\* on page 1 at zoom 1.0 with the file's data URL, no error, Analyze enabled.
C11_UrlLoadLikeLocalUpload ==
    [][ /\ \A o \in UrlOutcomes :
              (UrlFailure(o) = NULL /\ UrlSettle(o)) =>
                  /\ Len(pdfFile'.files) = 1
                  /\ pdfFile'.files[1].body = o.body /\ pdfFile'.files[1].size = o.size
                  /\ \E r \in readers' : r.file = pdfFile'.files[1]
                  /\ urlError' = NULL
        /\ \A f \in LocalFiles :
              (ValidPdf(f) /\ PickFile(f)) => \E r \in readers' : r.file = f
        /\ \A r \in readers :
              (ValidPdf(r.file) /\ (isUrlMode \/ selectedPaper = NULL) /\ ReaderOnLoad(r)) =>
                  Downstream' = LoadedState(r.file)
      ]_vars

\* C11 witness: a PDF loaded from a URL is previewed after the user had zoomed
\* and paged in an earlier document.
C11_UrlLoadPreviewed ==
    /\ isUrlMode /\ HasFile(pdfFile) /\ pdfFile.files[1].name = extractFileNameFromUrl(GoodUrl)
    /\ readers = {} /\ Downstream = LoadedState(LocalPdf)

\* A document of numPages pages is shown in the preview.
DocumentLoaded == pdfUrl # NoPdfUrl /\ numPages # NoNumPages

\* C12: while an N-page document is loaded 1 <= currentPage <= N; on page 1
\* goToPrevPage, and on page N goToNextPage, leave currentPage as it is,
\* whether called from the button or from an arrow key.
C12_PageWithinDocument ==
    /\ [](/\ currentPage >= 1
          /\ numPages # NoNumPages => currentPage <= numPages
          /\ (DocumentLoaded /\ currentPage = 1) =>
                 goToPrevPage(Pdf).currentPage = currentPage
          /\ (DocumentLoaded /\ currentPage = numPages) =>
                 goToNextPage(Pdf).currentPage = currentPage)
    /\ [][ /\ (currentPage = 1 /\ (PrevPageClick \/ KeyDown("ArrowLeft", "body"))) =>
                 currentPage' = currentPage
           /\ (currentPage = numPages /\ (NextPageClick \/ KeyDown("ArrowRight", "body"))) =>
                 currentPage' = currentPage
           /\ (currentPage > 1 /\ KeyDown("ArrowLeft", "body")) => currentPage' = currentPage - 1
           /\ (currentPage < numPages /\ KeyDown("ArrowRight", "body")) =>
                 currentPage' = currentPage + 1
         ]_vars

\* C12 witness: the last page of the longest document, reached by stepping.
C12_OnLastPage == DocumentLoaded /\ numPages = MaxPages /\ currentPage = numPages

\* C13: pdfZoom stays within [MIN_ZOOM, MAX_ZOOM]; handleZoomIn at MAX_ZOOM
\* and handleZoomOut at MIN_ZOOM leave it at the limit; handleSetZoom(z) sets
\* min(MAX_ZOOM, max(MIN_ZOOM, z)) for every requested z.
C13_ZoomWithinLimits ==
    /\ MIN_ZOOM <= pdfZoom /\ pdfZoom <= MAX_ZOOM
    /\ handleZoomIn([Pdf EXCEPT !.pdfZoom = MAX_ZOOM]).pdfZoom = MAX_ZOOM
    /\ handleZoomOut([Pdf EXCEPT !.pdfZoom = MIN_ZOOM]).pdfZoom = MIN_ZOOM
    /\ MIN_ZOOM <= handleZoomIn(Pdf).pdfZoom /\ handleZoomIn(Pdf).pdfZoom <= MAX_ZOOM
    /\ MIN_ZOOM <= handleZoomOut(Pdf).pdfZoom /\ handleZoomOut(Pdf).pdfZoom <= MAX_ZOOM
    /\ \A z \in ZoomRequests :
          handleSetZoom(Pdf, z).pdfZoom =
              (IF z < MIN_ZOOM THEN MIN_ZOOM ELSE IF z > MAX_ZOOM THEN MAX_ZOOM ELSE z)

\* C13 witness: the zoom at its upper limit in the maximized preview.
C13_AtMaxZoom == DocumentLoaded /\ pdfZoom = MAX_ZOOM /\ maximizedCard = "pdf"

\* C14: every zoom the controls can reach (zoom in, zoom out, reset, the zoom
\* menu, the resets on loading and on maximizing) is a multiple of ZOOM_STEP:
\* one of 0.1, 0.2, ..., 2.0.
C14_ZoomIsStepped ==
    pdfZoom \in {k * ZOOM_STEP : k \in (MIN_ZOOM \div ZOOM_STEP)..(MAX_ZOOM \div ZOOM_STEP)}

\* The drops that carry more than one file.
MultiFileDrops == {fs \in DropLists : Len(fs) > 1}

\* C17 (as amended): in every state, a drop of more than one file that
\* handleDrop handles is rejected whatever the files are: the handler reports
\* the error and leaves pdfFile null, also when a file was loaded before, and
\* the effect that follows starts no read and leaves no file name and (no
\* earlier read being pending) no preview; a drop during an analysis or a URL
\* load is ignored and changes nothing.
C17_MultiFileDropRejected ==
    \A fs \in MultiFileDrops :
        LET r == handleDrop(fs)
            p == AfterRender(Pdf, pdfFile, r.u.pdfFile, r.installed, r.uiError)
        IN  IF DropIgnored
            THEN r.u = Upload /\ r.uiError = uiError /\ ~r.installed /\ p = Pdf
            ELSE /\ r.uiError = OnlyOneMsg
                 /\ r.u.pdfFile = NullValue
                 /\ ~r.installed
                 /\ p.readers = readers /\ p.fileName = NULL
                 /\ NoReadPending => p.pdfUrl = NoPdfUrl

\* C17 witness: the error of a multi-file drop is shown and the form is empty
\* after a file had been loaded and analysed.
C17_MultiFileDropReported ==
    /\ uiError = OnlyOneMsg
    /\ pdfFile = NullValue /\ pdfUrl = NoPdfUrl
    /\ isSubmitted /\ Truthy(insights)

\* C17 (as stated): every drop of more than one file reports the error and
\* leaves pdfFile null.
C17_EveryMultiFileDropRejected ==
    \A fs \in MultiFileDrops :
        LET r == handleDrop(fs)
        IN  r.uiError = OnlyOneMsg /\ r.u.pdfFile = NullValue

\* C18: nothing is retried.  A POST is issued only by "Analyze PDF", a GET of
\* a URL only by "Load from URL", the fetch of an example's markdown only by
\* "Load Example" and the fetch of its PDF only by the continuation of that
\* call after the markdown arrived; a pending request is never replaced by
\* another one, and the step that settles a request (with a failure or not)
\* leaves that request idle and starts no other.
C18_NoAutomaticRetry ==
    [][ /\ (~submitReq.active /\ submitReq'.active) => AnalyzeClick
        /\ (~urlReq.active /\ urlReq'.active) => LoadFromUrlClick
        /\ (preloadReq.stage # "md" /\ preloadReq'.stage = "md") => LoadExampleClick
        /\ (preloadReq.stage # "pdf" /\ preloadReq'.stage = "pdf") =>
               preloadReq.stage = "md" /\ PreloadMdSettle(TRUE)
        /\ (submitReq.active /\ submitReq' # submitReq) => ~submitReq'.active
        /\ (urlReq.active /\ urlReq' # urlReq) => ~urlReq'.active
        /\ (preloadReq.stage = "md" /\ preloadReq' # preloadReq) =>
               preloadReq'.stage \in {"pdf", "idle"} /\ preloadReq'.paper \in {preloadReq.paper, NULL}
        /\ (preloadReq.stage = "pdf" /\ preloadReq' # preloadReq) => preloadReq'.stage = "idle"
        /\ \A o \in SubmitOutcomes :
               SubmitSettle(o) => ~submitReq'.active /\ UNCHANGED <<urlReq, preloadReq>>
        /\ \A o \in UrlOutcomes :
               UrlSettle(o) => ~urlReq'.active /\ UNCHANGED <<submitReq, preloadReq>>
        /\ \A ok \in BOOLEAN :
               PreloadPdfSettle(ok) => preloadReq'.stage = "idle" /\ UNCHANGED <<submitReq, urlReq>>
        /\ PreloadMdSettle(FALSE) => preloadReq'.stage = "idle" /\ UNCHANGED <<submitReq, urlReq>>
      ]_vars

\* C18 witness: an analysis failed and nothing is pending.
C18_FailedAndIdle ==
    /\ uiError = FailedToFetch
    /\ isSubmitted /\ ~isLoading
    /\ ~submitReq.active /\ ~urlReq.active /\ preloadReq.stage = "idle"

\* Pieces of failure messages, in mixed case; some patterns arise only across
\* two pieces ("too" "long"), some almost ("time" "out").
CatchFragments ==
    {<<"T", "o", "k", "e", "n", " ", "L", "i", "m", "i", "t">>,
     <<"T", "i", "m", "e", "o", "u", "t">>,
     <<"t", "i", "m", "e", "d", " ", "O", "U", "T">>,
     <<"I", "n", "v", "a", "l", "i", "d">>,
     <<"c", "o", "r", "r", "u", "p", "t", "e", "d">>,
     <<"F", "O", "R", "M", "A", "T">>,
     <<"e", "r", "r", "o", "r", " ", "5", "0", "0">>,
     <<"t", "o", "o">>,
     <<"l", "o", "n", "g">>,
     <<"t", "i", "m", "e">>,
     <<"o", "u", "t">>}

\* Longest message examined, in pieces.
MaxFragments == 2

RECURSIVE JoinWithSpaces(_)
JoinWithSpaces(pieces) ==
    IF Len(pieces) = 1 THEN pieces[1]
    ELSE pieces[1] \o <<" ">> \o JoinWithSpaces(Tail(pieces))

\* The failure messages the catch block is examined on.
CatchInputs ==
    {JoinWithSpaces(ps) : ps \in SeqsUpTo(CatchFragments, MaxFragments) \ {<<>>}}
    \cup {Text(m) : m \in {FailedToFetch, ApiError500, OcrTimedOut, InputTooLong,
                          InvalidJsonMsg, EmptyResponseMsg}}

\* The classification the claim describes: the first group, in the order
\* context length, timeout, format, one of whose patterns occurs in the
\* message regardless of case; none when no pattern occurs.
FirstGroupMatching(message) ==
    LET groups == <<ContextPatterns, TimeoutPatterns, FormatPatterns>>
        names == <<"context", "timeout", "format">>
        matching == {k \in 1..3 : \E p \in groups[k] : Includes(ToLowerCase(message), p)}
    IN  IF matching = {} THEN "verbatim"
        ELSE names[CHOOSE k \in matching : \A j \in matching : k <= j]

\* Every examined message takes the branch of its first matching group.
BranchIsFirstGroupMatching == \A m \in CatchInputs : CatchBranch(m) = FirstGroupMatching(m)

\* C19: submitPdf's catch block classifies the failure message regardless of
\* case by the first group that matches, in the order context length,
\* timeout, format; a failed analysis reports exactly that group's message,
\* and the failure message itself when no pattern occurs in it.
C19_FirstMatchSelectsMessage ==
    /\ []BranchIsFirstGroupMatching
    /\ [][\A o \in SubmitOutcomes :
             (SubmitSettle(o) /\ ~SubmitResult(o).ok) =>
                 LET thrown == IF o.kind = "jsonNoInsights" THEN InvalidJsonMsg
                               ELSE IF o.kind = "text" THEN EmptyResponseMsg
                               ELSE o.text
                     group == FirstGroupMatching(Text(thrown))
                 IN  uiError' = (CASE group = "context" -> ContextLengthMsg
                                   [] group = "timeout" -> TimedOutMsg
                                   [] group = "format" -> UnableMsg
                                   [] group = "verbatim" -> thrown)
         ]_vars

\* C19 witness: a failure naming 'Invalid_Request_Error' and 'Too Long' (and
\* with them 'invalid') was reported as a context-length failure.
C19_ContextLengthReported ==
    /\ uiError = ContextLengthMsg
    /\ isSubmitted /\ ~isLoading /\ ~submitReq.active

\* The state a completed load of example id is described by: its insights,
\* its file and file name, the selection, and no error.
ExampleLoaded(id) ==
    /\ insights = PaperInsights(id)
    /\ pdfFile = FileList(<<PaperFile(id)>>)
    /\ fileName = PaperFile(id).name
    /\ selectedPaper = id
    /\ uiError = NULL /\ formError = NULL

\* C20: a load of an example that succeeds ends in the same state whether it
\* is the first load or a repeated one (after Clear Selection, or with the
\* earlier load's insights still shown): the example's insights, file name
\* and PDF file, selectedPaper its id, no error; reading the preview then
\* shows the example's PDF and changes none of these.
C20_RepeatedLoadSameState ==
    [][ /\ \A id \in PaperIds :
              (preloadReq.paper = id /\ PreloadPdfSettle(TRUE)) =>
                  /\ ExampleLoaded(id)'
                  /\ \E r \in readers' : r.file = PaperFile(id)
        /\ \A id \in PaperIds, r \in readers :
              (ExampleLoaded(id) /\ r.file = PaperFile(id) /\ ReaderOnLoad(r)) =>
                  ExampleLoaded(id)' /\ pdfUrl' = DataUrl(PaperFile(id))
      ]_vars

\* C20 witness: the example is being loaded again, with no Clear Selection
\* since its earlier load: its insights are still shown, its PDF fetch is
\* pending.
C20_SecondLoadUnderWay ==
    /\ preloadReq.stage = "pdf"
    /\ selectedPaper = preloadReq.paper
    /\ insights = PaperInsights(preloadReq.paper)
    /\ pdfFile = NullValue

\* C21 (as stated in the specification): every maximize/minimize toggle of
\* either card performed while a PDF is previewed resets pdfZoom to 1.0.
C21_EveryToggleResetsZoom ==
    [][\A cardType \in {"insights", "pdf"} :
          (pdfUrl # NoPdfUrl /\ MaximizeToggle(cardType))
              => pdfZoom' = DefaultZoom]_vars

\* C21, the case that departs: the insights card is maximized over a preview
\* that is still zoomed.
C21_InsightsMaximizedZoomKept ==
    pdfUrl # NoPdfUrl /\ maximizedCard = "insights" /\ pdfZoom # DefaultZoom

\* C22: a maximize/minimize toggle of either card leaves currentPage and
\* numPages as they are, and so does onDocumentLoadSuccess when the Document
\* is mounted again for the PDF already shown.
C22_PageKeptAcrossViewTransitions ==
    [][/\ \A cardType \in {"insights", "pdf"} :
             MaximizeToggle(cardType) => UNCHANGED <<currentPage, numPages>>
       /\ \A n \in PageCounts :
             (numPages # NoNumPages /\ DocumentLoadSuccess(n))
                 => UNCHANGED <<currentPage, numPages>>]_vars

\* C22: a card is maximized while the preview shows the last page of a
\* document of several pages.
C22_MaximizedOnLaterPage ==
    DocumentLoaded /\ maximizedCard # NULL /\ currentPage = numPages /\ numPages > 1

\* C23 (as stated in the specification): a drop never installs a local file
\* while isUrlMode or isPreloadMode remains true.
C23_DropAgreesWithMode ==
    \A fs \in DropLists :
        LET r == handleDrop(fs)
        IN  r.installed => ~r.u.isUrlMode /\ ~r.u.isPreloadMode

\* C23, the case that departs: a dropped local file is loaded while the page
\* is still in URL mode or in preload mode.
C23_LocalFileInOtherMode ==
    /\ isUrlMode \/ isPreloadMode
    /\ pdfFile = FileList(<<LocalPdf>>)
    /\ pdfUrl = DataUrl(LocalPdf)

\* C24 (as stated in the specification): whenever pdfUrl is non-null it is
\* the data URL of the file currently held in the form, under every
\* interleaving of selection, replacement and Clear Selection with pending
\* FileReader callbacks.
C24_PreviewBelongsToLoadedFile ==
    pdfUrl # NoPdfUrl => HasFile(pdfFile) /\ pdfUrl = DataUrl(pdfFile.files[1])

\* C24, the case that departs: no read is pending any more and the preview
\* shows a file that the form no longer holds.
C24_StalePreviewStays ==
    /\ readers = {}
    /\ pdfUrl = DataUrl(LocalPdf)
    /\ pdfFile # FileList(<<LocalPdf>>)

\* C25 (as stated in the specification): a step that replaces the loaded
\* file by another one never leaves the insights of the previous document on
\* screen (the content of the test loader aside).
C25_ReplacementDropsInsights ==
    [][(/\ insights # NULL /\ insights # TestMarkdown
        /\ HasFile(pdfFile) /\ HasFile(pdfFile')
        /\ pdfFile'.files[1] # pdfFile.files[1])
           => insights' # insights]_vars

\* C25, the case that departs: a report returned by the backend is on screen
\* while the form holds a text file, which is never submitted.
C25_ReportOverOtherFile ==
    insights \in InsightStrings /\ pdfFile = FileList(<<TextFile>>)

\* C26: provided every fetch eventually settles, each loading flag that is
\* set eventually returns to false, on success and on every failure; and a
\* submitPdf that finds no backend URL ends with isLoading false.
C26_LoadingFlagsCleared ==
    /\ isLoading ~> ~isLoading
    /\ isUrlLoading ~> ~isUrlLoading
    /\ isPreloadLoading ~> ~isPreloadLoading
    /\ [][(AnalyzeClick /\ ~cfg.backendConfigured) => ~isLoading']_vars

\* C26: an example load has failed at its PDF fetch and no loading flag is
\* left set.
C26_FailedLoadCleared ==
    uiError = PdfFailedMsg /\ ~isLoading /\ ~isUrlLoading /\ ~isPreloadLoading

\* The outcomes of the POST with which submitPdf fails: a rejected fetch, a
\* non-2xx status, a JSON body without a string "insights", an empty text
\* body.
FailedSubmitOutcomes ==
    {o \in SubmitOutcomes :
        \/ o.kind \in {"reject", "notOk", "jsonNoInsights"}
        \/ o.kind = "text" /\ o.text = ""}

\* C27: a submitPdf that fails (at the fetch, at the status, at the body, or
\* for want of a backend URL) leaves insights as they were and ends with one
\* error reported and not cleared, as onSuccess would clear it.
C27_FailedSubmitKeepsInsights ==
    [][/\ \A o \in FailedSubmitOutcomes :
             SubmitSettle(o) => insights' = insights /\ Truthy(uiError')
       /\ (AnalyzeClick /\ SchemaError(pdfFile) = NULL /\ HasFile(pdfFile)
              /\ ~cfg.backendConfigured)
             => insights' = insights /\ uiError' = NoBackendMsg /\ ~isLoading']_vars

\* C27: the report of an earlier analysis is still shown after a later
\* analysis failed on an empty body.
C27_EarlierReportKept ==
    Truthy(insights) /\ insights \in InsightStrings /\ uiError = EmptyResponseMsg

\* C28: handleLoadFromUrl rejects an input that does not start with "http"
\* with urlError and without a fetch; when the fetch fails, answers non-OK,
\* is no PDF or is too large, urlError is set, a file loaded before the
\* attempt is still the form's file, and without such a file pdfFile is null.
C28_FailedUrlLoadKeepsFile ==
    /\ [](urlReq.active /\ urlReq.hadFile => HasFile(pdfFile))
    /\ [][/\ (urlReq.active /\ urlReq.hadFile /\ urlReq'.active) => pdfFile' = pdfFile
          /\ (LoadFromUrlClick /\ ~StartsWithHttp(pdfUrlInputValue))
                => /\ urlError' = InvalidUrlMsg
                   /\ ~urlReq'.active /\ ~isUrlLoading'
                   /\ pdfFile' = pdfFile
          /\ \A o \in UrlOutcomes :
                (UrlSettle(o) /\ UrlFailure(o) # NULL)
                    => /\ urlError' = UrlFailure(o)
                       /\ IF urlReq.hadFile THEN pdfFile' = pdfFile
                                            ELSE pdfFile' = NullValue]_vars

\* C28: a URL load made over a loaded file has failed on the size of the
\* body, and the file is still loaded.
C28_FailedOverLoadedFile ==
    urlError = UrlTooLargeMsg /\ HasFile(pdfFile) /\ ~isUrlLoading

\* C29: one ArrowLeft/ArrowRight press outside editable elements moves
\* currentPage by exactly one page, staying within 1..numPages, although two
\* listeners handle the event; a press inside an input, a textarea or a
\* content-editable element leaves the page alone.
C29_KeyPressMovesOnePage ==
    [][\A key \in {"ArrowLeft", "ArrowRight"}, target \in EditableTargets \cup {"body"} :
          KeyDown(key, target)
              => /\ numPages' = numPages
                 /\ currentPage' =
                        IF target \in EditableTargets THEN currentPage
                        ELSE IF key = "ArrowLeft" THEN Max(currentPage - 1, 1)
                        ELSE Min(currentPage + 1, numPages)]_vars

\* C29: the preview shows the page before the last of a document, where a
\* press of ArrowRight or ArrowLeft has a page to go to.
C29_OnInnerPage ==
    DocumentLoaded /\ numPages = MaxPages /\ currentPage = MaxPages - 1

\* C30: Clear Selection, wherever it is enabled, ends with no file loaded,
\* no insights, no selected example, no UI error, the PDF state at its
\* initial value and URL mode off; preload mode stays on exactly when an
\* example had been loaded in preload mode.
C30_ClearSelectionResets ==
    [][ClearSelection
         => /\ pdfFile' = NullValue
            /\ insights' = NULL /\ selectedPaper' = NULL /\ uiError' = NULL
            /\ pdfUrl' = NoPdfUrl /\ fileName' = NULL
            /\ numPages' = NoNumPages /\ currentPage' = 1 /\ pdfZoom' = DefaultZoom
            /\ ~isUrlMode'
            /\ isPreloadMode' = (isPreloadMode /\ selectedPaper # NULL)]_vars

\* C30: Clear Selection is enabled over a loaded example whose preview has
\* been zoomed and paged, with its insights on screen.
C30_ClearableExample ==
    /\ ClearSelectionEnabled
    /\ isPreloadMode /\ selectedPaper # NULL /\ Truthy(insights)
    /\ currentPage > 1 /\ pdfZoom # DefaultZoom

(***************************************************************************)
(*                     Properties of the middleware                        *)
(***************************************************************************)

\* The credentials a Basic header carries: the bytes of its base64 payload,
\* the user-id up to the first colon and the password after it (RFC 7617).
CarriedCredentials(h) ==
    LET b == Base64Decode(h.payload)
        k == IndexFrom(b, ByteColon, 1)
    IN  [hasColon |-> k > 0,
         username |-> IF k > 0 THEN SubSeq(b, 1, k - 1) ELSE b,
         password |-> IF k > 0 THEN SubSeq(b, k + 1, Len(b)) ELSE <<>>]

\* C1: with ENABLE_PASSWORD_PROTECTION 'true' a request is passed on only when
\* USERNAME and PASSWORD are configured and its Basic header carries exactly
\* that username and, after the first colon, exactly that password; any other
\* request is answered 401 with the Basic challenge, or 500 when the
\* credentials are not configured.
C1_PassedOnlyWithExactCredentials ==
    (env.protection /\ response # NoResponse) =>
        LET configured == env.username # <<>> /\ env.password # <<>>
            c == CarriedCredentials(request)
            exact == /\ request.scheme = "Basic "
                     /\ c.hasColon
                     /\ c.username = env.username
                     /\ c.password = env.password
        IN  IF ~configured THEN response.status = "500"
            ELSE IF exact THEN response = NextResponse
            ELSE response.status = "401" /\ response.wwwAuthenticate = Challenge

\* A protected, configured deployment has passed a request on.
C1_Passed ==
    /\ env.protection
    /\ env.username # <<>> /\ env.password # <<>>
    /\ response = NextResponse


\* C15: with protection enabled and USERNAME and PASSWORD configured (the
\* password may contain ':'), the request whose Basic header encodes exactly
\* USERNAME ':' PASSWORD is passed on.
C15_ConfiguredCredentialsAdmitted ==
    (/\ env.protection
     /\ env.username # <<>> /\ env.password # <<>>
     /\ response # NoResponse
     /\ request = BasicHeader(env.username, env.password))
        => response = NextResponse

\* The configured credentials were presented and passed on.
C15_Admitted ==
    /\ env.protection
    /\ env.username # <<>> /\ env.password # <<>>
    /\ request = BasicHeader(env.username, env.password)
    /\ response = NextResponse


\* C16: with protection enabled every request, whatever its path, is answered
\* through the credential check: none is served without the middleware.
C16_EveryPathChecked ==
    (env.protection /\ response # NoResponse) => response # ServedUnchecked

\* A protected deployment challenged a request for an example's PDF.
C16_ExamplePdfChallenged ==
    /\ env.protection
    /\ path = <<"data", "/", "preload", "/", "PDF", "/", "p1", ".", "pdf">>
    /\ response = AuthenticationRequired

====
